---------------------------- MODULE Spec2Model ----------------------------
(***************************************************************************)
(* A model of src/src/serviceGenerator.ts (openapi2typescript): the        *)
(* identifier sanitizer, the type resolution engine, the schema model      *)
(* builder and the operation grouper, as the ServiceGenerator runs them.   *)
(*                                                                         *)
(* JavaScript strings are TLA+ strings; TLC evaluates Len, \o, SubSeq,     *)
(* Head and Tail on them, so every regular expression of the source is     *)
(* modelled as a scan over the characters of the string.                   *)
(***************************************************************************)
EXTENDS Integers, Sequences, FiniteSets, TLC

VARIABLES
  openAPIData,    \* this.openAPIData: the Document, shared with the caller
  config,         \* this.config
  apiData,        \* this.apiData: tag -> operations, in discovery order
  classNameList,  \* this.classNameList
  pc,             \* where genFile stands
  run,            \* number of the generation run over the same Document
  typings,        \* what getInterfaceTP returned in this run
  service,        \* what getServiceTP returned in this run
  files,          \* the files genFileFromTemplate wrote, in order
  first,          \* the lists the first run produced
  arg,            \* the argument of a call of a pure function
  out             \* what the call returned

vars == <<openAPIData, config, apiData, classNameList, pc, run, typings,
          service, files, first, arg, out>>

genVars == <<openAPIData, config, apiData, classNameList, pc, run, typings,
             service, files, first>>

-----------------------------------------------------------------------------
(* Bounds of the model *)

\* longest raw name handed to resolveTypeName
MaxNameLen == 4
\* deepest nesting of the schemas handed to getType
MaxSchemaDepth == 2
\* longest enum handed to resolveEnumObject
MaxEnumLen == 3

\* the most component schemas of a Document
MaxSchemas == 3

\* functionName.length > 20 in getFunctionName
NameLengthThreshold == 20

-----------------------------------------------------------------------------
(* Characters and strings *)

Lower == "abcdefghijklmnopqrstuvwxyz"
Upper == "ABCDEFGHIJKLMNOPQRSTUVWXYZ"
Digits == "0123456789"

Ch(s, i) == SubSeq(s, i, i)

\* const v = value; followed by the statements that read v: the value is
\* computed once
Bind(value, Body(_)) == Body(value)

CharsOf(s) == {Ch(s, i) : i \in 1..Len(s)}

LowerSet == CharsOf(Lower)
UpperSet == CharsOf(Upper)
DigitSet == CharsOf(Digits)

\* \w
IsWordCh(c) == c \in LowerSet \/ c \in UpperSet \/ c \in DigitSet \/ c = "_"

\* \s, for the white space the model's strings can hold
IsSpaceCh(c) == c = " "

UpperOf == [c \in LowerSet |-> Ch(Upper, CHOOSE i \in 1..26 : Ch(Lower, i) = c)]
LowerOf == [c \in UpperSet |-> Ch(Lower, CHOOSE i \in 1..26 : Ch(Upper, i) = c)]

ToUpperCh(c) == IF c \in LowerSet THEN UpperOf[c] ELSE c

ToLowerCh(c) == IF c \in UpperSet THEN LowerOf[c] ELSE c

RECURSIVE MapChars(_, _)
\* s with every character c replaced by the string f[c] (f a function on characters)
MapChars(s, up) ==
  IF s = "" THEN ""
  ELSE (IF up THEN ToUpperCh(Head(s)) ELSE ToLowerCh(Head(s))) \o MapChars(Tail(s), up)

toUpperCase(s) == MapChars(s, TRUE)
toLowerCase(s) == MapChars(s, FALSE)

\* String.prototype.startsWith / endsWith / includes / indexOf
startsWith(s, t) == Len(t) <= Len(s) /\ SubSeq(s, 1, Len(t)) = t
endsWith(s, t) == Len(t) <= Len(s) /\ SubSeq(s, Len(s) - Len(t) + 1, Len(s)) = t
OccursAt(s, t, i) == i + Len(t) - 1 <= Len(s) /\ SubSeq(s, i, i + Len(t) - 1) = t
RECURSIVE IndexFrom(_, _, _, _)
\* the first position from i on, stepping by step, where t occurs in s
IndexFrom(s, t, i, step) ==
  IF i < 1 \/ i + Len(t) - 1 > Len(s) THEN 0
  ELSE IF OccursAt(s, t, i) THEN i
  ELSE IndexFrom(s, t, i + step, step)

\* 1-based position of the first occurrence, 0 when there is none
indexOf(s, t) == IndexFrom(s, t, 1, 1)
\* 1-based position of the last occurrence, 0 when there is none
lastIndexOf(s, t) == IndexFrom(s, t, Len(s) - Len(t) + 1, -1)
includes(s, t) == indexOf(s, t) # 0

\* s.replace(t, r) with a string pattern: the first occurrence only
replaceFirst(s, t, r) ==
  Bind(indexOf(s, t), LAMBDA i :
    IF i = 0 THEN s
    ELSE SubSeq(s, 1, i - 1) \o r \o SubSeq(s, i + Len(t), Len(s)))

RECURSIVE replaceAll(_, _, _)
\* s.replace(/t/g, r) for a pattern t without metacharacters; the empty
\* pattern matches the empty string and replaces nothing by r = ''
replaceAll(s, t, r) ==
  IF t = "" THEN s
  ELSE Bind(indexOf(s, t), LAMBDA i :
         IF i = 0 THEN s
         ELSE SubSeq(s, 1, i - 1) \o r \o
              replaceAll(SubSeq(s, i + Len(t), Len(s)), t, r))

RECURSIVE split(_, _)
\* s.split(c) for a one-character separator
split(s, c) ==
  Bind(indexOf(s, c), LAMBDA i :
    IF i = 0 THEN <<s>>
    ELSE <<SubSeq(s, 1, i - 1)>> \o split(SubSeq(s, i + 1, Len(s)), c))

RECURSIVE join(_, _)
\* Array.prototype.join
join(xs, sep) ==
  IF xs = <<>> THEN ""
  ELSE IF Len(xs) = 1 THEN xs[1]
  ELSE xs[1] \o sep \o join(Tail(xs), sep)

Last(xs) == xs[Len(xs)]

AllDigits(s) == s # "" /\ \A i \in 1..Len(s) : Ch(s, i) \in DigitSet

\* text.charAt(0).toUpperCase() + text.slice(1)
toUpperFirstLetter(text) ==
  IF text = "" THEN "" ELSE ToUpperCh(Head(text)) \o Tail(text)

\* s.replace(/^\S/, c => c.toLowerCase())
LowerFirst(s) ==
  IF s = "" \/ IsSpaceCh(Head(s)) THEN s ELSE ToLowerCh(Head(s)) \o Tail(s)

-----------------------------------------------------------------------------
(* 4.1 Identifier sanitizer *)

\* the ES5 word list of the reserved-words package, ReservedDict.check(word)
ReservedWords ==
  {"break", "case", "catch", "continue", "debugger", "default", "delete",
   "do", "else", "finally", "for", "function", "if", "in", "instanceof",
   "new", "return", "switch", "this", "throw", "try", "typeof", "var",
   "void", "while", "with", "class", "const", "enum", "export", "extends",
   "import", "super", "null", "true", "false"}

ReservedCheck(word) == word \in ReservedWords

RECURSIVE CamelSeparators(_)
\* s.replace(/[-_ ](\w)/g, (_all, letter) => letter.toUpperCase())
CamelSeparators(s) ==
  IF s = "" THEN ""
  ELSE IF Head(s) \in {"-", "_", " "} /\ Len(s) >= 2 /\ IsWordCh(Ch(s, 2))
    THEN ToUpperCh(Ch(s, 2)) \o CamelSeparators(SubSeq(s, 3, Len(s)))
    ELSE Head(s) \o CamelSeparators(Tail(s))

RECURSIVE StripNonWord(_)
\* s.replace(/[^\w^\s^\u4e00-\u9fa5]/gi, ''): the class keeps word
\* characters, white space, the caret and CJK (no CJK in the model's strings)
StripNonWord(s) ==
  IF s = "" THEN ""
  ELSE IF IsWordCh(Head(s)) \/ IsSpaceCh(Head(s)) \/ Head(s) = "^"
    THEN Head(s) \o StripNonWord(Tail(s))
    ELSE StripNonWord(Tail(s))

\* lines 58-75 of resolveTypeName: what it does with a word that is not
\* reserved. namespace is a string without regular-expression
\* metacharacters; the model's strings hold no character of \u3220-\uFA29,
\* so the pinyin branch is never taken
SanitizeName(typeName, namespace) ==
  Bind(split(Last(split(replaceAll(typeName, "[[", "_"), "/")), ",")[1],
       LAMBDA typeLastName :
  Bind(replaceAll(StripNonWord(CamelSeparators(typeLastName)), namespace, ""),
       LAMBDA name :
    IF name = "_" \/ AllDigits(name) THEN "Pinyin_" \o name
    ELSE name))

\* resolveTypeName without its reserved-word check
resolveTypeName_NoReservedCheck(typeName, namespace) ==
  SanitizeName(typeName, namespace)

\* const resolveTypeName = (typeName, namespace) => ...
resolveTypeName(typeName, namespace) ==
  IF ReservedCheck(typeName) THEN "__openAPI__" \o typeName
  ELSE SanitizeName(typeName, namespace)

-----------------------------------------------------------------------------
(* JavaScript values *)

(* A JavaScript value is a record.  undefined, null and the primitives are  *)
(* [undefined |-> TRUE], [null |-> TRUE], [num |-> n], [str |-> s] and      *)
(* [bool |-> b]; an array is [list |-> <<...>>]; any other record is an     *)
(* object whose fields are its keys.  A schema object has among its fields  *)
(*   ref         the $ref string                                           *)
(*   type, format  strings                                                  *)
(*   enum        a value, a [list |-> ...] when well formed                *)
(*   items, schema  values                                                  *)
(*   oneOf, allOf   [list |-> sequence of values]                           *)
(*   properties  a sequence of [key |-> string, val |-> value], in key      *)
(*               order (Object.keys enumerates in insertion order)          *)
(*   required    [names |-> sequence of keys], or [bool |-> b] once a      *)
(*               boolean has been written there                             *)

Undefined == [undefined |-> TRUE]
Null == [null |-> TRUE]
Num(n) == [num |-> n]
Str(s) == [str |-> s]

IsNullish(v) == "undefined" \in DOMAIN v \/ "null" \in DOMAIN v
IsPrimitive(v) == DOMAIN v \cap {"num", "str", "bool"} # {}
IsList(v) == "list" \in DOMAIN v
IsObject(v) == ~IsNullish(v) /\ ~IsPrimitive(v) /\ ~IsList(v)

\* o.f, for any value o that is not nullish
Field(o, f) == IF IsObject(o) /\ f \in DOMAIN o THEN o[f] ELSE Undefined

\* a string-valued key is truthy when present and not ''
HasText(o, f) == IsObject(o) /\ f \in DOMAIN o /\ o[f] # ""

\* truthiness of a value
Truthy(v) ==
  IF IsNullish(v) THEN FALSE
  ELSE IF "num" \in DOMAIN v THEN v.num # 0
  ELSE IF "str" \in DOMAIN v THEN v.str # ""
  ELSE IF "bool" \in DOMAIN v THEN v.bool
  ELSE TRUE

RECURSIVE NatText(_)
NatText(n) == IF n < 10 THEN Ch(Digits, n + 1)
              ELSE NatText(n \div 10) \o Ch(Digits, (n % 10) + 1)

\* String(n)
NumText(n) == IF n < 0 THEN "-" \o NatText(-n) ELSE NatText(n)

\* String(v), as a template literal renders a value that is not a list
ToText(v) ==
  IF "undefined" \in DOMAIN v THEN "undefined"
  ELSE IF "null" \in DOMAIN v THEN "null"
  ELSE IF "num" \in DOMAIN v THEN NumText(v.num)
  ELSE IF "str" \in DOMAIN v THEN v.str
  ELSE IF "bool" \in DOMAIN v THEN (IF v.bool THEN "true" ELSE "false")
  ELSE "[object Object]"

\* What an expression evaluates to: a value of some JavaScript type with its
\* String() text, or a thrown error
Ok(kind, text) == [thrown |-> FALSE, kind |-> kind, text |-> text]
OkStr(text) == Ok("string", text)
Thrown(msg) == [thrown |-> TRUE, kind |-> "TypeError", text |-> msg]

AnyThrown(rs) == \E i \in DOMAIN rs : rs[i].thrown
FirstThrown(rs) ==
  rs[CHOOSE i \in DOMAIN rs : rs[i].thrown /\ \A j \in 1..(i - 1) : ~rs[j].thrown]
Texts(rs) == [i \in DOMAIN rs |-> rs[i].text]

RECURSIVE Dedup(_)
\* Array.from(new Set(xs)): the first occurrence of each member is kept
Dedup(xs) ==
  IF xs = <<>> THEN <<>>
  ELSE Bind(Dedup(SubSeq(xs, 1, Len(xs) - 1)), LAMBDA front :
         IF \E i \in DOMAIN front : front[i] = Last(xs)
           THEN front ELSE Append(front, Last(xs)))

-----------------------------------------------------------------------------
(* 4.3 Type resolution engine *)

\* function getRefName(refObject, namespace), for an object with a $ref
getRefName(refObject, namespace) ==
  resolveTypeName(Last(split(refObject.ref, "/")), namespace)

numberEnum ==
  {"int64", "integer", "long", "float", "double", "number", "int", "int32"}
dateEnum == {"Date", "date", "dateTime", "date-time", "datetime"}
stringEnum == {"string", "email", "password", "url", "byte", "binary"}

\* `"${v.replace(/"/g, '"')}"`
QuoteLiteral(v) == "\"" \o replaceAll(v, "\"", "\"") \o "\""

\* the array suffix appended without looking for a union
ArraySuffix_NoParens(arrayType) == arrayType \o "[]"

\* arrayType.includes(' | ') ? `(${arrayType})[]` : `${arrayType}[]`
ArraySuffix(arrayType) ==
  IF includes(arrayType, " | ") THEN "(" \o arrayType \o ")[]"
  ELSE arrayType \o "[]"

RECURSIVE getType(_, _)

\* the result of a map over getType: the first error thrown, or what the
\* callback makes of the texts
Mapped(rs, Done(_)) ==
  IF AnyThrown(rs) THEN FirstThrown(rs) ELSE OkStr(Done(Texts(rs)))

\* one property of an object type: `'${key}'${required ? '' : '?'}: ${type}; `
PropertyText(key, prop, t) ==
  IF IsPrimitive(prop) /\ Truthy(prop) THEN Thrown("Cannot use 'in' operator")
  ELSE IF t.thrown THEN t
  ELSE OkStr("'" \o key \o "'"
             \* 'required' in (prop || {}) ? prop.required : false
             \o (IF IsObject(prop) /\ Truthy(Field(prop, "required")) THEN "" ELSE "?")
             \o ": " \o t.text \o "; ")

\* `${arrayType}[]` for the type of the items
ArrayOf(arrayType) ==
  IF arrayType.thrown THEN arrayType
  ELSE IF arrayType.kind # "string"
    THEN Thrown("arrayType.includes is not a function")
  ELSE OkStr(ArraySuffix(arrayType.text))

\* subType.schema || subType
SubTypeSchema(subType) ==
  IF Truthy(Field(subType, "schema")) THEN subType.schema ELSE subType

\* const getType = (schemaObject, namespace): string => ...
getType(schemaObject, namespace) ==
  IF IsNullish(schemaObject) THEN OkStr("any")
  ELSE IF "num" \in DOMAIN schemaObject
    THEN Ok("number", NumText(schemaObject.num))
  ELSE IF "str" \in DOMAIN schemaObject THEN OkStr(schemaObject.str)
  ELSE IF "bool" \in DOMAIN schemaObject
    THEN Ok("boolean", IF schemaObject.bool THEN "true" ELSE "false")
  ELSE IF HasText(schemaObject, "ref")
    THEN Bind(getRefName(schemaObject, namespace), LAMBDA refName :
           OkStr(join(SelectSeq(<<namespace, refName>>, LAMBDA x : x # ""), ".")))
  ELSE
    Bind(IF HasText(schemaObject, "type") THEN schemaObject.type ELSE "",
         LAMBDA declared :
    Bind(IF Truthy(Field(schemaObject, "enum")) THEN "enum"
         ELSE IF "format" \in DOMAIN schemaObject
                 /\ schemaObject.format \in numberEnum THEN "number"
         ELSE declared,
         LAMBDA type :
    IF type \in numberEnum THEN OkStr("number")
    ELSE IF type \in dateEnum THEN OkStr("Date")
    ELSE IF type \in stringEnum THEN OkStr("string")
    ELSE IF type = "boolean" THEN OkStr("boolean")
    ELSE IF type = "array" THEN
      Bind(IF Truthy(Field(schemaObject, "schema"))
             THEN Field(schemaObject.schema, "items")
             ELSE Field(schemaObject, "items"),
           LAMBDA items :
      IF IsList(items) THEN
        \* items.map((subType) => getType(subType.schema || subType)).toString()
        IF \E i \in DOMAIN items.list : IsNullish(items.list[i])
          THEN Thrown("Cannot read properties of null")
          ELSE Mapped([i \in DOMAIN items.list |->
                         getType(SubTypeSchema(items.list[i]), namespace)],
                      LAMBDA ts : "[" \o join(ts, ",") \o "]")
      ELSE ArrayOf(getType(items, namespace)))
    ELSE IF type = "enum" THEN
      IF IsList(Field(schemaObject, "enum")) THEN
        Bind([i \in DOMAIN schemaObject.enum.list |->
                IF "str" \in DOMAIN schemaObject.enum.list[i]
                  THEN OkStr(QuoteLiteral(schemaObject.enum.list[i].str))
                  ELSE getType(schemaObject.enum.list[i], namespace)],
             LAMBDA rs :
               IF AnyThrown(rs) THEN FirstThrown(rs)
               ELSE OkStr(join(Texts(Dedup(rs)), " | ")))
      ELSE OkStr("string")
    ELSE IF IsList(Field(schemaObject, "oneOf")) /\ schemaObject.oneOf.list # <<>> THEN
      Mapped([i \in DOMAIN schemaObject.oneOf.list |->
                getType(schemaObject.oneOf.list[i], namespace)],
             LAMBDA ts : join(ts, " | "))
    ELSE IF IsList(Field(schemaObject, "allOf")) /\ schemaObject.allOf.list # <<>> THEN
      Mapped([i \in DOMAIN schemaObject.allOf.list |->
                getType(schemaObject.allOf.list[i], namespace)],
             LAMBDA ts : "(" \o join(ts, " & ") \o ")")
    ELSE IF declared = "object" \/ "properties" \in DOMAIN schemaObject THEN
      IF "properties" \notin DOMAIN schemaObject \/ schemaObject.properties = <<>>
        THEN OkStr("Record<string, any>")
      ELSE
        Mapped([i \in DOMAIN schemaObject.properties |->
                  PropertyText(schemaObject.properties[i].key,
                               schemaObject.properties[i].val,
                               getType(schemaObject.properties[i].val, namespace))],
               LAMBDA ts : "{ " \o join(ts, "") \o "}")
    ELSE OkStr("any")))

-----------------------------------------------------------------------------
(* 4.4 Schema model builder: enums *)

\* item.match(/(.*?)\(/): null when item holds no "(", else group 1 is the
\* text before the first one
HasParen(item) == includes(item, "(")
BeforeParen(item) == SubSeq(item, 1, indexOf(item, "(") - 1)

RECURSIVE StripLeadingZeros(_)
StripLeadingZeros(s) ==
  IF Len(s) > 1 /\ Head(s) = "0" THEN StripLeadingZeros(Tail(s)) ELSE s

\* isNaN(+part) ? part : +part, where part = item.split('=')[1]; the strings
\* of the model are digits only, empty, or hold a letter or a bracket, so
\* that +part is a natural number or NaN
NumberOrText(parts) ==
  IF Len(parts) < 2 THEN Ok("undefined", "")
  ELSE IF parts[2] = "" THEN Ok("number", "0")
  ELSE IF AllDigits(parts[2]) THEN Ok("number", StripLeadingZeros(parts[2]))
  ELSE OkStr(parts[2])

\* resolveEnumObject(schemaObject), for a schema with an enum; the result is
\* [thrown, isEnum, type] with type = [defined |-> b, text |-> s]:
\* { isEnum, type: Array.isArray(enumArray) ? enumStr : 'string' }
EnumDone(enumArray, isEnum, defined, text) ==
  [thrown |-> FALSE, isEnum |-> isEnum,
   type |-> IF IsList(enumArray) THEN [defined |-> defined, text |-> text]
            ELSE [defined |-> TRUE, text |-> "string"]]

EnumFailed(msg) ==
  [thrown |-> TRUE, isEnum |-> FALSE, type |-> [defined |-> FALSE, text |-> msg]]

\* `${v}="${v}"`
EnumPair(v) == v \o "=\"" \o v \o "\""

\* typeof v === 'string' ? `"${v.replace(/"/g, '"')}"` : getType(v, namespace)
EnumLiteral(v, namespace) ==
  IF "str" \in DOMAIN v THEN OkStr(QuoteLiteral(v.str)) ELSE getType(v, namespace)

\* typeof v === 'string' ? v : getType(v, namespace)
EnumItem(v, namespace) ==
  IF "str" \in DOMAIN v THEN OkStr(v.str) ELSE getType(v, namespace)

\* the second loop pushes, for each item, the text before its parenthesis
\* and that text with its first character in lower case
EnumKeys(items) ==
  [i \in 1..(2 * Len(items)) |->
     Bind(BeforeParen(items[(i + 1) \div 2].text), LAMBDA key :
       IF i % 2 = 1 THEN OkStr(QuoteLiteral(key))
       ELSE OkStr(QuoteLiteral(LowerFirst(key))))]

\* the third loop pushes, for each item, what follows its first '='
EnumNumbers(items) ==
  [i \in DOMAIN items |-> NumberOrText(split(items[i].text, "="))]

\* the string-literal style, from the results of the first loop and the
\* items of the second and third
EnumUnion(enumArray, loop1, items) ==
  IF AnyThrown(loop1) THEN EnumFailed(FirstThrown(loop1).text)
  ELSE IF AnyThrown(items) THEN EnumFailed(FirstThrown(items).text)
  ELSE IF \E i \in DOMAIN items : items[i].kind # "string"
    THEN EnumFailed("item.match is not a function")
  ELSE IF \E i \in DOMAIN items : ~HasParen(items[i].text)
    THEN EnumFailed("Cannot read properties of null (reading '1')")
  ELSE EnumDone(enumArray, FALSE, TRUE,
                join(Texts(Dedup(loop1 \o EnumKeys(items) \o EnumNumbers(items))),
                     " | "))

resolveEnumObject(schemaObject, cfg) ==
  IF cfg.enumStyle = "enum" THEN
    IF ~IsList(schemaObject.enum) THEN EnumFailed("enumArray.map is not a function")
    ELSE EnumDone(schemaObject.enum, TRUE, TRUE,
                  "{" \o join([i \in DOMAIN schemaObject.enum.list |->
                                 EnumPair(ToText(schemaObject.enum.list[i]))], ",")
                      \o "}")
  ELSE IF cfg.enumStyle = "string-literal" THEN
    IF ~IsList(schemaObject.enum)
      THEN EnumFailed("enumArray.forEach is not a function")
    ELSE
      Bind(SelectSeq(schemaObject.enum.list, LAMBDA v : "num" \notin DOMAIN v),
           LAMBDA others :
        EnumUnion(schemaObject.enum,
                  [i \in DOMAIN schemaObject.enum.list |->
                     EnumLiteral(schemaObject.enum.list[i], cfg.namespace)],
                  [i \in DOMAIN others |-> EnumItem(others[i], cfg.namespace)]))
  ELSE EnumDone(schemaObject.enum, FALSE, FALSE, "")

-----------------------------------------------------------------------------
(* The Document and the configuration *)

(* openAPIData is [paths, components].  paths is the sequence, in the order *)
(* of the document's keys, of path items [path, ops]; ops is the sequence,  *)
(* in the order of the path item's keys, of [method, op]; an operation op   *)
(* is an object with the optional keys operationId (a string), tags (a      *)
(* sequence of strings), parameters (a sequence of [name, in, required,     *)
(* schema]) and responses (the schema of responses['200'].content of its    *)
(* first media type).  The documents of the model declare no requestBody,   *)
(* no vendor extension and no path-level parameters.  components is         *)
(* [schemas |-> sequence of [key, val]], in key order.                      *)
(*                                                                          *)
(* config is [namespace, enumStyle, dataFields, generateApis, apiPrefix,    *)
(* customFunctionName]: apiPrefix '' stands for no prefix, and              *)
(* customFunctionName names the hook function given, "none" for no hook.    *)

Methods == <<"get", "put", "post", "delete", "patch">>

OpAt(doc, at) == doc.paths[at[1]].ops[at[2]].op

\* the index of key k in an ordered map, 0 when it is no key
KeyIndex(map, k) ==
  IF \E i \in DOMAIN map : map[i].key = k
    THEN CHOOSE i \in DOMAIN map : map[i].key = k
    ELSE 0

\* private pathReplaceReg = /\$?{.*}/g, in s.replace(pathReplaceReg, '__'):
\* .* is greedy, so one match runs from the first "{" (with a "$" before it)
\* to the last "}" of the string
PathReplace(s) ==
  Bind(indexOf(s, "{"), LAMBDA i :
  Bind(lastIndexOf(s, "}"), LAMBDA j :
    IF i = 0 \/ j < i THEN s
    ELSE SubSeq(s, 1, (IF i > 1 /\ Ch(s, i - 1) = "$" THEN i - 1 ELSE i) - 1)
         \o "__" \o SubSeq(s, j + 1, Len(s))))

-----------------------------------------------------------------------------
(* 4.5 Operation grouper and namer: names *)

\* stripDot of ./util, which the repository's files here do not hold:
\* "strip a disallowed leading character"
stripDot(str) == IF str # "" /\ Head(str) = "." THEN Tail(str) ELSE str

\* private resolveFunctionName(functionName, methodName)
resolveFunctionName(functionName, methodName) ==
  IF ReservedCheck(functionName)
    THEN functionName \o "Using" \o toUpperCase(methodName)
    ELSE functionName

RECURSIVE StripSeparators(_)
\* s.replace(/[-_ ]/g, '')
StripSeparators(s) ==
  IF s = "" THEN ""
  ELSE IF Head(s) \in {"-", "_", " "} THEN StripSeparators(Tail(s))
  ELSE Head(s) \o StripSeparators(Tail(s))

\* private getFinalFileName(s)
getFinalFileName(s) == CamelSeparators(StripSeparators(s))

\* Array.from(new Set(arr[key])): the distinct k-th segments of the rows
SegmentColumn(rows, k) ==
  {rows[i][k] : i \in {j \in DOMAIN rows : Len(rows[j]) >= k}}

\* the first n columns hold one segment each
UniformUpTo(rows, n) == \A k \in 1..n : Cardinality(SegmentColumn(rows, k)) = 1

\* the length of the longest row
MaxWidth(rows) ==
  IF rows = <<>> THEN 0
  ELSE CHOOSE n \in {Len(rows[i]) : i \in DOMAIN rows} :
         \A i \in DOMAIN rows : Len(rows[i]) <= n

\* the number of leading columns up to the first that holds two segments
CommonColumns(rows, width) ==
  CHOOSE n \in 0..width :
    UniformUpTo(rows, n) /\ (n = width \/ ~UniformUpTo(rows, n + 1))

\* private getBasePrefix(paths)
getBasePrefix(paths) ==
  Bind([i \in DOMAIN paths |-> split(paths[i], "/")], LAMBDA rows :
  Bind(CommonColumns(rows, MaxWidth(rows)), LAMBDA n :
    join([k \in 1..n |-> CHOOSE x \in SegmentColumn(rows, k) : TRUE], "/") \o "/"))

\* the name of one segment s of a path: `By${toUpperFirstLetter(s.slice(1,
\* s.length - 1))}` for a placeholder, toUpperFirstLetter(s) otherwise
SegmentName(s) ==
  IF Len(s) >= 3 /\ Head(s) = "{" /\ Ch(s, Len(s)) = "}"
    THEN "By" \o toUpperFirstLetter(SubSeq(s, 2, Len(s) - 1))
    ELSE toUpperFirstLetter(s)

\* private genDefaultFunctionName(path, pathBasePrefix); resolveTypeName
\* returns no "-", so the branch that camel-cases "-x" is never taken
genDefaultFunctionName(path, pathBasePrefix, namespace) ==
  Bind(split(replaceFirst(path, pathBasePrefix, ""), "/"), LAMBDA strs :
    join([i \in DOMAIN strs |->
            SegmentName(resolveTypeName(strs[i], namespace))], ""))

\* the customFunctionName hook of src/test/test.js: the operationId up to
\* its last "Using", '' without an operationId
HookOperationId(data) ==
  Bind(IF HasText(data, "operationId") THEN data.operationId ELSE "",
       LAMBDA funName :
    IF includes(funName, "Using")
      THEN SubSeq(funName, 1, lastIndexOf(funName, "Using") - 1)
      ELSE funName)

\* Object.keys(this.openAPIData.paths)
PathKeys(doc) == [i \in DOMAIN doc.paths |-> doc.paths[i].path]

\* public getFunctionName(data); data is the operation with path and method
getFunctionName(data, doc, cfg) ==
  Bind(IF cfg.customFunctionName = "operationId" THEN HookOperationId(data)
       ELSE IF HasText(data, "operationId")
         THEN resolveFunctionName(stripDot(data.operationId), data.method)
       ELSE data.method \o genDefaultFunctionName(data.path,
                                                  getBasePrefix(PathKeys(doc)),
                                                  cfg.namespace),
       LAMBDA functionName :
  \* 1-based, 0 when the namespace does not occur
  Bind(lastIndexOf(toLowerCase(functionName), toLowerCase(cfg.namespace)),
       LAMBDA index :
    LowerFirst(
      IF index # 0 /\ Len(functionName) > NameLengthThreshold
        THEN data.method \o
             SubSeq(functionName, index + Len(cfg.namespace), Len(functionName))
        ELSE functionName)))

\* public getTypeName(data); no customTypeName hook is configured
getTypeName(data, doc, cfg) ==
  resolveTypeName((IF cfg.namespace # "" THEN cfg.namespace \o "." ELSE "")
                    \o getFunctionName(data, doc, cfg) \o "Params",
                  cfg.namespace)

\* { ...operationObject, method, path }
WithPath(op, method, path) ==
  [k \in DOMAIN op \cup {"method", "path"} |->
     IF k = "method" THEN method ELSE IF k = "path" THEN path ELSE op[k]]

-----------------------------------------------------------------------------
(* Sorting *)

\* a.localeCompare(b) under the root collation, for the characters of the
\* model: punctuation and symbols, then digits, then letters, a letter's
\* case deciding only between strings that differ in nothing else
CollationOrder ==
  " _-,;:!?.'\"()[]{}@*/\\&#%^+<=>|~$0123456789abcdefghijklmnopqrstuvwxyz"

CollationWeight ==
  [c \in CharsOf(CollationOrder) |-> indexOf(CollationOrder, c)]

PrimaryWeight(c) == CollationWeight[ToLowerCh(c)]

RECURSIVE ComparePrimary(_, _)
ComparePrimary(a, b) ==
  IF a = "" /\ b = "" THEN 0
  ELSE IF a = "" THEN -1
  ELSE IF b = "" THEN 1
  ELSE IF PrimaryWeight(Head(a)) < PrimaryWeight(Head(b)) THEN -1
  ELSE IF PrimaryWeight(Head(a)) > PrimaryWeight(Head(b)) THEN 1
  ELSE ComparePrimary(Tail(a), Tail(b))

RECURSIVE CompareCase(_, _)
\* for strings of equal primary weights: lower case first
CompareCase(a, b) ==
  IF a = "" THEN 0
  ELSE IF Head(a) = Head(b) THEN CompareCase(Tail(a), Tail(b))
  ELSE IF Head(a) \in LowerSet THEN -1 ELSE 1

localeCompare(a, b) ==
  Bind(ComparePrimary(a, b), LAMBDA primary :
    IF primary # 0 THEN primary ELSE CompareCase(a, b))

RECURSIVE InsertByKey(_, _, _)
\* the ordered list of indices order with index i put after every member
\* whose key is not greater than the key of i
InsertByKey(order, i, keys) ==
  IF order = <<>> THEN <<i>>
  ELSE IF localeCompare(keys[Head(order)], keys[i]) <= 0
    THEN <<Head(order)>> \o InsertByKey(Tail(order), i, keys)
  ELSE <<i>> \o order

RECURSIVE SortedUpTo(_, _)
SortedUpTo(keys, n) ==
  IF n = 0 THEN <<>> ELSE InsertByKey(SortedUpTo(keys, n - 1), n, keys)

\* the order in which Array.prototype.sort, which is stable, leaves the
\* members of a list whose sort keys are keys: position -> index in the list
SortedOrder(keys) == SortedUpTo(keys, Len(keys))

-----------------------------------------------------------------------------
(* Defaults *)

DEFAULT_SCHEMA ==
  [type |-> "object", properties |-> <<[key |-> "id", val |-> [type |-> "number"]]>>]

DEFAULT_PATH_PARAM(name) ==
  [in |-> "path", name |-> name, schema |-> [type |-> "string"],
   required |-> [bool |-> TRUE], isObject |-> FALSE, type |-> "string"]

ComponentSchemas(doc) ==
  IF "components" \in DOMAIN doc /\ "schemas" \in DOMAIN doc.components
    THEN doc.components.schemas ELSE <<>>

-----------------------------------------------------------------------------
(* 4.4 Schema model builder: objects, references, allOf *)

\* { ...o, k: v } for one key
With(o, k, v) == [f \in DOMAIN o \cup {k} |-> IF f = k THEN v ELSE o[f]]

\* o without the key k
Without(o, k) == [f \in DOMAIN o \ {k} |-> o[f]]

\* [schema.title, schema.description].filter((s) => s).join(' ')
Desc(schema) ==
  join(SelectSeq(<<IF HasText(schema, "title") THEN schema.title ELSE "",
                   IF HasText(schema, "description") THEN schema.description ELSE "">>,
                 LAMBDA x : x # ""), " ")

\* requiredPropKeys ? requiredPropKeys.some((key) => key === propName) : false,
\* thrown when the value is true, which has no some()
RequiredIn(schemaObject, propName) ==
  Bind(Field(schemaObject, "required"), LAMBDA requiredPropKeys :
    IF ~Truthy(requiredPropKeys) THEN Ok("boolean", "false")
    ELSE IF "names" \in DOMAIN requiredPropKeys
      THEN Ok("boolean",
              IF \E i \in DOMAIN requiredPropKeys.names :
                   requiredPropKeys.names[i] = propName
                THEN "true" ELSE "false")
    ELSE Thrown("requiredPropKeys.some is not a function"))

\* { ...schema, name, type, desc, required } for one property
PropOf(propName, schema, type, required) ==
  Bind(IF IsObject(schema) THEN schema ELSE [type |-> ""], LAMBDA spread :
    [f \in DOMAIN spread \cup {"name", "type", "desc", "required"} |->
       IF f = "name" THEN propName
       ELSE IF f = "type" THEN type.text
       ELSE IF f = "desc" THEN Desc(schema)
       ELSE IF f = "required" THEN [bool |-> required.text = "true"]
       ELSE spread[f]])

\* (schemaObject.properties && schemaObject.properties[propName]) || DEFAULT_SCHEMA
PropSchema(property) ==
  IF Truthy(property.val) THEN property.val ELSE DEFAULT_SCHEMA

\* the properties of a schema with the type and the required flag of each
PropsOf(properties, types, reqs) ==
  IF AnyThrown(types) THEN [thrown |-> TRUE, props |-> <<>>]
  ELSE IF AnyThrown(reqs) THEN [thrown |-> TRUE, props |-> <<>>]
  ELSE [thrown |-> FALSE,
        props |-> [i \in DOMAIN properties |->
                     PropOf(properties[i].key, PropSchema(properties[i]),
                            types[i], reqs[i])]]

\* getProps(schemaObject): [thrown, props]; a property is the spread of its
\* schema with name, type, desc and required written over it
getProps(schemaObject, cfg) ==
  Bind(IF "properties" \in DOMAIN schemaObject THEN schemaObject.properties
       ELSE <<>>,
       LAMBDA properties :
    PropsOf(properties,
            [i \in DOMAIN properties |->
               getType(PropSchema(properties[i]), cfg.namespace)],
            [i \in DOMAIN properties |->
               RequiredIn(schemaObject, properties[i].key)]))

\* What resolveObject returns, as getInterfaceTP reads it: the values of its
\* keys type, parent, props and isEnum
Resolved(type, parent, props, isEnum) ==
  [thrown |-> FALSE, type |-> type, parent |-> parent, props |-> props,
   isEnum |-> isEnum]

ResolveThrown == [thrown |-> TRUE, type |-> Undefined, parent |-> Undefined,
                  props |-> Undefined, isEnum |-> Undefined]

\* the keys of a schema object that is returned as it is; val is the
\* object returned
ResolvedAs(schemaObject) ==
  With(Resolved(IF HasText(schemaObject, "type") THEN Str(schemaObject.type)
                ELSE Undefined,
                Field(schemaObject, "parent"), Field(schemaObject, "props"),
                Field(schemaObject, "isEnum")),
       "val", schemaObject)

\* throw new Error(`[GenSDK] Data Error! Notfoud: ${refObject.$ref}`)
DataError(ref) == "[GenSDK] Data Error! Notfoud: " \o ref

\* obj = obj[node] where obj is undefined
RefTypeError == "TypeError: Cannot read properties of undefined"

\* the recursion of resolveRefObject that no return ends
StackError == "RangeError: Maximum call stack size exceeded"

\* what resolveRefObject throws
RefThrown(error) == With(With(ResolveThrown, "error", error), "val", Undefined)

\* the entries of the maps of components a reference can lead to
RefNodes(doc) ==
  Len(ComponentSchemas(doc))
    + (IF "components" \in DOMAIN doc /\ "parameters" \in DOMAIN doc.components
         THEN Len(doc.components.parameters) ELSE 0)

\* let obj = this.openAPIData; refPaths.forEach((node) => { obj = obj[node] })
\* over the segments after '#': [thrown, obj], thrown when a key of
\* undefined is read.  The references of the model have at most three
\* segments and lead into components or start at a key the Document lacks
RefWalk(doc, segs) ==
  IF segs = <<>> THEN [thrown |-> FALSE, obj |-> doc]
  ELSE
    Bind(IF segs[1] = "components" THEN Field(doc, "components") ELSE Undefined,
         LAMBDA top :
      IF Len(segs) = 1 THEN [thrown |-> FALSE, obj |-> top]
      ELSE IF IsNullish(top) THEN [thrown |-> TRUE, obj |-> Undefined]
      ELSE IF segs[2] \notin DOMAIN top
        THEN [thrown |-> Len(segs) > 2, obj |-> Undefined]
      ELSE IF Len(segs) = 2
        THEN [thrown |-> FALSE, obj |-> [map |-> top[segs[2]]]]
      ELSE Bind(KeyIndex(top[segs[2]], segs[3]), LAMBDA k :
             [thrown |-> FALSE,
              obj |-> IF k = 0 THEN Undefined ELSE top[segs[2]][k].val]))

\* { ...resolveRefObject(obj), type: obj.$ref ? resolveRefObject(obj).type : obj }
RefResolved(obj, inner) ==
  IF inner.thrown THEN inner
  ELSE With(Resolved(IF HasText(obj, "ref") THEN inner.type ELSE obj,
                     inner.parent, inner.props, inner.isEnum),
            "val",
            With(inner.val, "type",
                 IF HasText(obj, "ref") THEN Field(inner.val, "type") ELSE obj))

\* a resolver that resolves the reference it is given and leaves a target
\* that is itself a reference as it is
resolveRefObject_OneLevel(refObject, doc, fuel) ==
  IF ~HasText(refObject, "ref") THEN ResolvedAs(refObject)
  ELSE Bind(split(refObject.ref, "/"), LAMBDA refPaths :
    IF refPaths[1] # "#" THEN ResolvedAs(refObject)
    ELSE Bind(RefWalk(doc, Tail(refPaths)), LAMBDA walked :
      IF walked.thrown THEN RefThrown(RefTypeError)
      ELSE IF ~Truthy(walked.obj) THEN RefThrown(DataError(refObject.ref))
      ELSE RefResolved(walked.obj, ResolvedAs(walked.obj))))

RECURSIVE resolveRefObject(_, _, _)
\* private resolveRefObject(refObject); a chain of references that comes
\* back to itself recurses until the stack is exhausted, which fuel = 0
\* stands for: a chain that has followed as many references as components
\* has entries and finds one more has come back to an entry
resolveRefObject(refObject, doc, fuel) ==
  IF ~HasText(refObject, "ref") THEN ResolvedAs(refObject)
  ELSE
    Bind(split(refObject.ref, "/"), LAMBDA refPaths :
      IF refPaths[1] # "#" THEN ResolvedAs(refObject)
      ELSE Bind(RefWalk(doc, Tail(refPaths)), LAMBDA walked :
             IF walked.thrown THEN RefThrown(RefTypeError)
             ELSE IF ~Truthy(walked.obj)
               THEN RefThrown(DataError(refObject.ref))
             ELSE IF fuel = 0 THEN RefThrown(StackError)
             ELSE RefResolved(walked.obj,
                              resolveRefObject(walked.obj, doc, fuel - 1))))

\* resolveArray(schemaObject): an object with a type for an array of
\* references, else the string 'any[]', which has none of the keys
resolveArray(schemaObject) ==
  IF HasText(schemaObject.items, "ref")
    THEN Resolved(Str(Last(split(schemaObject.items.ref, "/")) \o "[]"),
                  Undefined, Undefined, Undefined)
    ELSE Resolved(Undefined, Undefined, Undefined, Undefined)

\* { props: [props] } and no other key
PropsResolved(own) ==
  IF own.thrown THEN ResolveThrown
  ELSE Resolved(Undefined, Undefined, [list |-> <<own.props>>], Undefined)

\* resolveProperties(schemaObject)
resolveProperties(schemaObject, cfg) == PropsResolved(getProps(schemaObject, cfg))

\* [{ ...item, type: getType(item, namespace).split('/').pop() }]
RefMember(item, type) ==
  [thrown |-> type.thrown,
   props |-> <<With(item, "type", Last(split(type.text, "/")))>>]

\* an allOf member that contributes the properties it declares, whatever it is
AllOfMember_PropsOnly(item, cfg) == getProps(item, cfg)

\* the callback of resolveAllOfObject's map: a reference contributes one
\* entry, the reference with its resolved type name; any other member its
\* properties
AllOfMember(item, cfg) ==
  IF HasText(item, "ref")
    THEN RefMember(item, getType(item, cfg.namespace))
    ELSE getProps(item, cfg)

\* { props: [...] } from the groups of the members
MembersResolved(members) ==
  IF AnyThrown(members) THEN ResolveThrown
  ELSE Resolved(Undefined, Undefined,
                [list |-> [i \in DOMAIN members |-> members[i].props]],
                Undefined)

\* resolveAllOfObject(schemaObject): { props } and no other key
resolveAllOfObject(schemaObject, cfg) ==
  MembersResolved([i \in DOMAIN schemaObject.allOf.list |->
                     AllOfMember(schemaObject.allOf.list[i], cfg)])

\* what resolveObject makes of resolveEnumObject's { isEnum, type }
EnumResolved(e) ==
  IF e.thrown THEN ResolveThrown
  ELSE Resolved(IF e.type.defined THEN Str(e.type.text) ELSE Undefined,
                Undefined, Undefined, [bool |-> e.isEnum])

\* resolveObject(schemaObject)
resolveObject(schemaObject, doc, cfg) ==
  IF HasText(schemaObject, "ref")
    THEN resolveRefObject(schemaObject, doc, RefNodes(doc))
  ELSE IF Truthy(Field(schemaObject, "enum"))
    THEN EnumResolved(resolveEnumObject(schemaObject, cfg))
  ELSE IF IsList(Field(schemaObject, "allOf")) /\ schemaObject.allOf.list # <<>>
    THEN resolveAllOfObject(schemaObject, cfg)
  ELSE IF "properties" \in DOMAIN schemaObject
    THEN resolveProperties(schemaObject, cfg)
  ELSE IF Truthy(Field(schemaObject, "items"))
          /\ HasText(schemaObject, "type") /\ schemaObject.type = "array"
    THEN resolveArray(schemaObject)
  ELSE ResolvedAs(schemaObject)

\* the filter of resolveFileTP on one property: "file", "other", or "thrown"
\* where p.items.format is read and p has no items
FileProp(p) ==
  IF "format" \in DOMAIN p /\ p.format \in {"binary", "base64"} THEN "file"
  ELSE IF "type" \in DOMAIN p /\ p.type \in {"string[]", "array"}
    THEN IF IsNullish(Field(p, "items")) THEN "thrown"
         ELSE IF HasText(p.items, "format") /\ p.items.format \in {"binary", "base64"}
           THEN "file"
         ELSE "other"
  ELSE "other"

\* { title: p.name, multiple: p.type === 'string[]' || p.type === 'array' }
FileOf(p) ==
  [title |-> IF "name" \in DOMAIN p THEN Str(p.name) ELSE Undefined,
   multiple |-> "type" \in DOMAIN p /\ p.type \in {"string[]", "array"}]

\* resolved.props && resolved.props.length > 0 && resolved.props[0]
FirstGroup(resolved) ==
  IF IsList(resolved.props) /\ resolved.props.list # <<>>
    THEN resolved.props.list[1] ELSE <<>>

FileThrown(error) == [thrown |-> TRUE, error |-> error, ret |-> <<>>]

\* ret = [...ret, ...this.resolveFileTP(resolved.type)]
FilesJoined(ret, rest) ==
  IF rest.thrown THEN rest
  ELSE [thrown |-> FALSE, error |-> "", ret |-> ret \o rest.ret]

RECURSIVE resolveFileTP(_, _, _, _)

\* the rest of resolveFileTP once resolveObject has returned
FilesOf(resolved, group, doc, cfg, fuel) ==
  IF \E i \in DOMAIN group : FileProp(group[i]) = "thrown"
    THEN FileThrown(RefTypeError)
  ELSE Bind(SelectSeq(group, LAMBDA p : FileProp(p) = "file"), LAMBDA props :
       Bind([i \in DOMAIN props |-> FileOf(props[i])], LAMBDA ret :
         IF ~Truthy(resolved.type)
           THEN [thrown |-> FALSE, error |-> "", ret |-> ret]
         ELSE IF fuel = 0 THEN FileThrown(StackError)
         ELSE FilesJoined(ret, resolveFileTP(resolved.type, doc, cfg, fuel - 1))))

\* public resolveFileTP(obj): [thrown, error, ret]; fuel = 0 stands for a
\* recursion that no return ends
resolveFileTP(obj, doc, cfg, fuel) ==
  Bind(resolveObject(obj, doc, cfg), LAMBDA resolved :
    IF resolved.thrown
      THEN FileThrown(IF "error" \in DOMAIN resolved THEN resolved.error
                      ELSE "TypeError")
      ELSE FilesOf(resolved, FirstGroup(resolved), doc, cfg, fuel))

-----------------------------------------------------------------------------
(* 4.5 Operation grouper and namer: parameters and paths *)

\* the number of word characters s starts with
WordPrefix(s) ==
  IF \A k \in 1..Len(s) : IsWordCh(Ch(s, k)) THEN Len(s)
  ELSE (CHOOSE k \in 1..Len(s) :
          ~IsWordCh(Ch(s, k)) /\ \A h \in 1..(k - 1) : IsWordCh(Ch(s, h))) - 1

RECURSIVE PlaceholderNames(_)
\* the names regex.exec(path) yields in turn for regex = /\{(\w+)\}/g
PlaceholderNames(path) ==
  Bind(indexOf(path, "{"), LAMBDA i :
    IF i = 0 THEN <<>>
    ELSE Bind(SubSeq(path, i + 1, Len(path)), LAMBDA rest :
         Bind(WordPrefix(rest), LAMBDA n :
           IF n >= 1 /\ n < Len(rest) /\ Ch(rest, n + 1) = "}"
             THEN <<SubSeq(rest, 1, n)>>
                  \o PlaceholderNames(SubSeq(rest, n + 2, Len(rest)))
           ELSE PlaceholderNames(rest))))

\* PushPlaceholders that pushes a parameter for every match
PushPlaceholders_NoCheck(params, names) ==
  params \o [i \in DOMAIN names |-> DEFAULT_PATH_PARAM(names[i])]

RECURSIVE PushPlaceholders(_, _)
\* while ((match = regex.exec(path))) { if (!path.some(...)) path.push(...) }
PushPlaceholders(params, names) ==
  IF names = <<>> THEN params
  ELSE PushPlaceholders(
         IF \E i \in DOMAIN params : params[i].name = Head(names)
           THEN params
           ELSE Append(params, DEFAULT_PATH_PARAM(Head(names))),
         Tail(names))

\* the component schema a parameter's schema refers to:
\* (components.schemas || {})[refList[refList.length - 1]]
DeRefObj(schema, doc) ==
  Bind(KeyIndex(ComponentSchemas(doc),
                IF HasText(schema, "ref") THEN Last(split(schema.ref, "/")) ELSE ""),
       LAMBDA k : IF k = 0 THEN Undefined ELSE ComponentSchemas(doc)[k].val)

IsObjectType(schema) == HasText(schema, "type") /\ schema.type = "object"

\* { ...p, isObject: isDirectObject || isRefObject, type: getType(...) }
TypedParameter(prm, type, doc) ==
  [thrown |-> type.thrown,
   val |-> [name |-> prm.name, in |-> prm.in, required |-> prm.required,
            schema |-> Field(prm, "schema"),
            isObject |-> IsObjectType(Field(prm, "schema"))
                         \/ IsObjectType(DeRefObj(Field(prm, "schema"), doc)),
            type |-> type.text]]

\* parameters.filter((p) => p.in === source), typed
ParametersIn(all, source) ==
  Bind(SelectSeq(all, LAMBDA r : r.val.in = source), LAMBDA picked :
    [i \in DOMAIN picked |-> picked[i].val])

\* the rest of getParamsTP, for the parameters as resolveRefObject returned
\* them
ParamsOf(parameters, path, doc, cfg) ==
  Bind([i \in DOMAIN parameters |->
          TypedParameter(parameters[i],
                         getType(IF Truthy(Field(parameters[i], "schema"))
                                   THEN parameters[i].schema ELSE DEFAULT_SCHEMA,
                                 cfg.namespace),
                         doc)],
       LAMBDA all :
  Bind(IF path # ""
         THEN PushPlaceholders(ParametersIn(all, "path"), PlaceholderNames(path))
         ELSE ParametersIn(all, "path"),
       LAMBDA pathParams :
    [thrown |-> \E i \in DOMAIN all : all[i].thrown,
     params |-> [src \in {q \in {"query", "cookie"} : ParametersIn(all, q) # <<>>}
                           \cup (IF pathParams # <<>> THEN {"path"} ELSE {}) |->
                   IF src = "path" THEN pathParams ELSE ParametersIn(all, src)]]))

\* public getParamsTP(parameters, path); the result is [thrown, params],
\* params a record with a key for each source that has parameters.  Every
\* parameter goes through resolveRefObject first, which throws for a
\* reference that leads nowhere
getParamsTP(parameters, path, doc, cfg) ==
  Bind([i \in DOMAIN parameters |->
          resolveRefObject(parameters[i], doc, RefNodes(doc))],
       LAMBDA resolved :
    IF AnyThrown(resolved) THEN [thrown |-> TRUE, params |-> <<>>]
    ELSE ParamsOf([i \in DOMAIN resolved |-> resolved[i].val], path, doc, cfg))

RECURSIVE FormatPath(_)
\* newApi.path.replace(/:([^/]*)|{([^}]*)}/gi, (_, str, str2) => `$\{${str || str2}}`)
FormatPath(path) ==
  IF path = "" THEN ""
  ELSE IF Head(path) = ":" THEN
    Bind(IF includes(Tail(path), "/") THEN indexOf(Tail(path), "/") - 1
         ELSE Len(path) - 1,
         LAMBDA n :
      "${" \o (IF n > 0 THEN SubSeq(path, 2, n + 1) ELSE "undefined") \o "}"
      \o FormatPath(SubSeq(path, n + 2, Len(path))))
  ELSE IF Head(path) = "{" /\ includes(path, "}") THEN
    Bind(indexOf(path, "}"), LAMBDA j :
      "${" \o SubSeq(path, 2, j - 1) \o "}" \o FormatPath(SubSeq(path, j + 1, Len(path))))
  ELSE Head(path) \o FormatPath(Tail(path))

\* escapedPathParams: alias: `param${index}`
Alias(index) == "param" \o NumText(index)

RECURSIVE AliasPath(_, _, _)
\* escapedPathParams.forEach((param) => { formattedPath =
\*   formattedPath.replace(`$\{${param.name}}`, `$\{${param.alias}}`) }),
\* from the parameter of index i on
AliasPath(formattedPath, pathParams, i) ==
  IF i > Len(pathParams) THEN formattedPath
  ELSE AliasPath(replaceFirst(formattedPath,
                              "${" \o pathParams[i].name \o "}",
                              "${" \o Alias(i - 1) \o "}"),
                 pathParams, i + 1)

\* getPrefixPath() of getServiceTP, for an apiPrefix that is a string
\* without white space at its ends and without a leading back quote
getPrefixPath(formattedPath, cfg) ==
  IF cfg.apiPrefix = "" THEN formattedPath
  ELSE IF Head(cfg.apiPrefix) \in {"'", "\""} THEN
    Bind(SubSeq(cfg.apiPrefix, 2, Len(cfg.apiPrefix) - 1), LAMBDA finalPrefix :
      IF startsWith(formattedPath, finalPrefix)
         \/ startsWith(formattedPath, "/" \o finalPrefix)
        THEN formattedPath
        ELSE finalPrefix \o formattedPath)
  ELSE "${" \o cfg.apiPrefix \o "}" \o formattedPath

-----------------------------------------------------------------------------
(* 4.4 Schema model builder: the declarations *)

RECURSIVE Flatten(_)
\* [].concat(...lists)
Flatten(lists) ==
  IF lists = <<>> THEN <<>> ELSE Head(lists) \o Flatten(Tail(lists))

\* pathItem[method]: the index of the method among the path item's keys
MethodIndex(pathItem, method) ==
  IF \E j \in DOMAIN pathItem.ops : pathItem.ops[j].method = method
    THEN CHOOSE j \in DOMAIN pathItem.ops : pathItem.ops[j].method = method
    ELSE 0

\* Object.keys(paths).forEach((p) => ['get', 'put', 'post', 'delete',
\* 'patch'].forEach((method) => { if (!pathItem[method]) return; ... })):
\* the operations in the order the two loops visit them
Operations(doc) ==
  Flatten([i \in DOMAIN doc.paths |->
             Bind(SelectSeq(Methods, LAMBDA m : MethodIndex(doc.paths[i], m) # 0),
                  LAMBDA present :
               [n \in DOMAIN present |->
                  [path |-> doc.paths[i].path, method |-> present[n],
                   at |-> <<i, MethodIndex(doc.paths[i], present[n])>>]])])

\* list.sort((a, b) => key(a).localeCompare(key(b)))
SortBy(list, keys) ==
  Bind(SortedOrder(keys), LAMBDA order : [r \in DOMAIN list |-> list[order[r]]])

\* getDefinesType()
DefinesType(schema, result) ==
  IF Truthy(result.type)
    THEN IF HasText(schema, "type") /\ schema.type = "object"
           THEN [bool |-> TRUE] ELSE result.type
    ELSE Str("Record<string, any>")

\* { typeName, type, parent, props, isEnum } from what resolveObject returned
Declared(typeName, schema, result) ==
  [thrown |-> result.thrown,
   decl |-> [typeName |-> typeName,
             type |-> DefinesType(schema, result),
             parent |-> result.parent,
             props |-> IF Truthy(result.props) THEN result.props.list ELSE <<>>,
             isEnum |-> result.isEnum]]

\* the declaration of one component schema, in getInterfaceTP's map
DeclarationOf(typeName, schema, doc, cfg) ==
  Declared(resolveTypeName(typeName, cfg.namespace), schema,
           resolveObject(schema, doc, cfg))

\* the props of the declaration of the parameters of an operation
ParamsProps(parameters, types) ==
  [i \in DOMAIN parameters |->
     [desc |-> "",
      \* parameter.name and parameter.required, undefined for a parameter
      \* given as a reference, which getInterfaceTP does not resolve
      name |-> IF "name" \in DOMAIN parameters[i]
                 THEN parameters[i].name ELSE Undefined,
      required |-> Field(parameters[i], "required"),
      type |-> types[i].text]]

\* the parameters an operation declares
ParametersOf(op) == IF "parameters" \in DOMAIN op THEN op.parameters ELSE <<>>

\* { typeName: getTypeName(...), type: 'Record<string, any>', props: [props] }
ParamsDeclared(typeName, parameters, types) ==
  [thrown |-> AnyThrown(types),
   pushed |-> parameters # <<>>,
   decl |-> [typeName |-> typeName,
             type |-> Str("Record<string, any>"),
             parent |-> Undefined,
             props |-> <<ParamsProps(parameters, types)>>,
             isEnum |-> [bool |-> FALSE]]]

\* the declaration getInterfaceTP pushes for an operation with parameters
ParamsDeclarationOf(o, doc, cfg) ==
  Bind(OpAt(doc, o.at), LAMBDA op :
    ParamsDeclared(
      IF ParametersOf(op) = <<>> THEN ""
      ELSE getTypeName(WithPath(op, o.method, o.path), doc, cfg),
      ParametersOf(op),
      [i \in DOMAIN ParametersOf(op) |->
         getType(Field(ParametersOf(op)[i], "schema"), cfg.namespace)]))

\* the declarations of the components, then those of the operations, sorted
Interfaces(doc, named, params) ==
  IF AnyThrown(named) \/ AnyThrown(params)
    THEN [thrown |-> TRUE, defined |-> FALSE, list |-> <<>>]
  \* data is undefined without components
  ELSE IF "components" \notin DOMAIN doc
    THEN [thrown |-> FALSE, defined |-> FALSE, list |-> <<>>]
  \* [components.schemas].map(...) is [null]; the reduce yields null and
  \* null.sort throws
  ELSE IF "schemas" \notin DOMAIN doc.components
    THEN [thrown |-> TRUE, defined |-> FALSE, list |-> <<>>]
  ELSE Bind(SelectSeq(params, LAMBDA d : d.pushed), LAMBDA pushed :
       Bind([i \in DOMAIN named |-> named[i].decl]
              \o [i \in DOMAIN pushed |-> pushed[i].decl],
            LAMBDA data :
         [thrown |-> FALSE, defined |-> TRUE,
          list |-> SortBy(data, [i \in DOMAIN data |-> data[i].typeName])]))

\* public getInterfaceTP(): [thrown, defined, list]; defined is whether a
\* list is returned and not undefined
getInterfaceTP(doc, cfg) ==
  Interfaces(doc,
             [i \in DOMAIN ComponentSchemas(doc) |->
                DeclarationOf(ComponentSchemas(doc)[i].key,
                              ComponentSchemas(doc)[i].val, doc, cfg)],
             [i \in DOMAIN Operations(doc) |->
                ParamsDeclarationOf(Operations(doc)[i], doc, cfg)])

-----------------------------------------------------------------------------
(* 4.5 Operation grouper and namer: responses *)

\* Object.keys(resContent)[0] of the model's documents
MediaType == "application/json"

defaultResponse == [mediaType |-> "*/*", type |-> "any"]

\* schema.required?.includes(fieldName) ?? false: absent, a list of names,
\* or a boolean, which has no includes()
IncludesRequired(schema, fieldName) ==
  Bind(Field(schema, "required"), LAMBDA required :
    IF IsNullish(required) THEN Ok("boolean", "false")
    ELSE IF "names" \in DOMAIN required
      THEN Ok("boolean",
              IF \E i \in DOMAIN required.names : required.names[i] = fieldName
                THEN "true" ELSE "false")
    ELSE Thrown("schema.required.includes is not a function"))

\* Object.keys(schema.properties).map((fieldName) => {
\*   schema.properties[fieldName]['required'] = ... }): the schema as the
\* assignments leave it
MarkRequired(schema) ==
  [schema EXCEPT !.properties =
     [i \in DOMAIN @ |->
        [key |-> @[i].key,
         val |-> With(@[i].val, "required",
                      [bool |-> IncludesRequired(schema, @[i].key).text = "true"])]]]

\* the index in components.schemas of the schema a response refers to, 0
\* for a response that is no reference or refers to no component
RefIndex(doc, content) ==
  IF HasText(content, "ref")
    THEN KeyIndex(ComponentSchemas(doc), Last(split(content.ref, "/")))
    ELSE 0

\* this.config.dataFields.map((field) => childrenSchema.properties[field])
\*   .filter(Boolean)?.[0], for a childrenSchema of type object with
\* properties: the index of that property, 0 when there is none
PickedField(childrenSchema, cfg) ==
  IF /\ HasText(childrenSchema, "type")
     /\ childrenSchema.type = "object"
     /\ "properties" \in DOMAIN childrenSchema
     /\ "dataFields" \in DOMAIN cfg
    THEN Bind(SelectSeq([i \in DOMAIN cfg.dataFields |->
                           KeyIndex(childrenSchema.properties, cfg.dataFields[i])],
                        LAMBDA m : m # 0 /\ Truthy(childrenSchema.properties[m].val)),
              LAMBDA picked : IF picked = <<>> THEN 0 ELSE picked[1])
    ELSE 0

\* the schema the response is typed from: property m of component k, or the
\* schema of the response itself when m = 0
ResponseSchema(o, doc, k, m) ==
  IF m = 0 THEN OpAt(doc, o.at).responses
  ELSE ComponentSchemas(doc)[k].val.properties[m].val

\* the Document with that schema as the assignments to required leave it
Written(o, doc, k, m, marked) ==
  IF m = 0 THEN [doc EXCEPT !.paths[o.at[1]].ops[o.at[2]].op.responses = marked]
  ELSE [doc EXCEPT !.components.schemas[k].val.properties[m].val = marked]

\* { mediaType, type: getType(schema, namespace) }
Typed(after, type) ==
  IF type.thrown
    THEN [thrown |-> TRUE, doc |-> after, response |-> defaultResponse]
    ELSE [thrown |-> FALSE, doc |-> after,
          response |-> [mediaType |-> MediaType, type |-> type.text]]

\* lines 729-738 of getResponseTP
ResponseOf(o, doc, cfg, k, m) ==
  Bind(ResponseSchema(o, doc, k, m), LAMBDA schema :
    IF "properties" \notin DOMAIN schema
      THEN Typed(doc, getType(schema, cfg.namespace))
    ELSE IF AnyThrown([i \in DOMAIN schema.properties |->
                         IncludesRequired(schema, schema.properties[i].key)])
      THEN [thrown |-> TRUE, doc |-> doc, response |-> defaultResponse]
    ELSE Bind(MarkRequired(schema), LAMBDA marked :
           Typed(Written(o, doc, k, m, marked), getType(marked, cfg.namespace))))

\* public getResponseTP(responses), for the operation at o.at, whose
\* responses object is reached from the Document: [thrown, doc, response],
\* doc being the Document as the call leaves it
getResponseTP(o, doc, cfg) ==
  IF "responses" \notin DOMAIN OpAt(doc, o.at)
    THEN [thrown |-> FALSE, doc |-> doc, response |-> defaultResponse]
  \* components.schemas[refName] without components
  ELSE IF HasText(OpAt(doc, o.at).responses, "ref") /\ "components" \notin DOMAIN doc
    THEN [thrown |-> TRUE, doc |-> doc, response |-> defaultResponse]
  ELSE Bind(RefIndex(doc, OpAt(doc, o.at).responses), LAMBDA k :
         ResponseOf(o, doc, cfg, k,
                    IF k = 0 THEN 0
                    ELSE PickedField(ComponentSchemas(doc)[k].val, cfg)))

-----------------------------------------------------------------------------
(* 4.5 Operation grouper and namer: the entries *)

\* if (functionName && tmpFunctionRD[functionName]) { functionName =
\*   functionName_(tmpFunctionRD[functionName] += 1) }
\* else if (functionName) { tmpFunctionRD[functionName] = 1 };
\* tmpFunctionRD is a function from the names seen to their counts (no name
\* of the model is a member of Object.prototype)
DedupName(tmpFunctionRD, functionName) ==
  IF functionName # "" /\ functionName \in DOMAIN tmpFunctionRD
    THEN [name |-> functionName \o "_" \o NumText(tmpFunctionRD[functionName] + 1),
          rd |-> [tmpFunctionRD EXCEPT ![functionName] = @ + 1]]
  ELSE IF functionName # ""
    THEN [name |-> functionName, rd |-> (functionName :> 1) @@ tmpFunctionRD]
  ELSE [name |-> functionName, rd |-> tmpFunctionRD]

\* private replaceDot(s)
replaceDot(s) == CamelSeparators(replaceAll(s, ".", "_"))

\* params.path, [] without path parameters
PathParameters(params) == IF "path" \in DOMAIN params THEN params.path ELSE <<>>

\* finalParams: the path parameters with their alias, the query parameters
\* with isComplexType
FinalParams(params) ==
  Bind(IF PathParameters(params) # <<>>
         THEN With(params, "path",
                   [i \in DOMAIN params.path |->
                      With(params.path[i], "alias", Alias(i - 1))])
         ELSE params,
       LAMBDA withPath :
    IF "query" \in DOMAIN withPath
      THEN With(withPath, "query",
                [i \in DOMAIN withPath.query |->
                   With(withPath.query[i], "isComplexType",
                        withPath.query[i].isObject)])
      ELSE withPath)

\* the object the inner map returns
Entry(o, functionName, typeName, formattedPath, finalParams, response, cfg) ==
  [at |-> o.at,
   functionName |-> functionName,
   typeName |-> typeName,
   path |-> getPrefixPath(formattedPath, cfg),
   pathInComment |-> replaceAll(formattedPath, "*", "&#42;"),
   hasPathVariables |-> includes(formattedPath, "{"),
   method |-> o.method,
   params |-> finalParams,
   hasParams |-> DOMAIN finalParams # {},
   response |-> response]

\* the callback of getServiceTP's inner map, for the operation o of the
\* group: [thrown, doc, rd, entry].  The operation's own keys are read from
\* the Document at entry.at; the documents declare no requestBody, so body
\* and file are null
ApiEntryOf(o, tmpFunctionRD, doc, cfg) ==
  Bind(WithPath(OpAt(doc, o.at), o.method, o.path), LAMBDA newApi :
  Bind(getParamsTP(ParametersOf(newApi), newApi.path, doc, cfg),
       LAMBDA allParams :
  Bind(getResponseTP(o, doc, cfg), LAMBDA response :
  Bind(DedupName(tmpFunctionRD,
                 getFinalFileName(getFunctionName(newApi, doc, cfg))),
       LAMBDA named :
    [thrown |-> allParams.thrown \/ response.thrown,
     doc |-> IF allParams.thrown THEN doc ELSE response.doc,
     rd |-> named.rd,
     entry |-> Entry(o, named.name, getTypeName(newApi, doc, cfg),
                     AliasPath(FormatPath(newApi.path),
                               PathParameters(allParams.params), 1),
                     FinalParams(allParams.params), response.response, cfg)]))))

\* the entries mapped so far and those of the operations after them
EntriesJoined(one, rest) ==
  [thrown |-> rest.thrown, doc |-> rest.doc, list |-> <<one.entry>> \o rest.list]

RECURSIVE GenParams(_, _, _, _)
\* this.apiData[tag].filter((api) => !api.path.includes('${')).map(...),
\* over the operations apis left to map: [thrown, doc, list]
GenParams(apis, tmpFunctionRD, doc, cfg) ==
  IF apis = <<>> THEN [thrown |-> FALSE, doc |-> doc, list |-> <<>>]
  ELSE IF includes(Head(apis).path, "${")
    THEN GenParams(Tail(apis), tmpFunctionRD, doc, cfg)
  ELSE Bind(ApiEntryOf(Head(apis), tmpFunctionRD, doc, cfg), LAMBDA one :
         IF one.thrown THEN [thrown |-> TRUE, doc |-> one.doc, list |-> <<>>]
         ELSE EntriesJoined(one, GenParams(Tail(apis), one.rd, one.doc, cfg)))

\* the object the outer map returns for a tag: fileName is
\* replaceDot(tag), and fileName[0].toLowerCase() throws for an empty one
Controller(fileName, mapped) ==
  [thrown |-> mapped.thrown \/ fileName = "",
   doc |-> mapped.doc,
   tp |-> [genType |-> "ts", className |-> fileName,
           instanceName |-> LowerFirst(fileName),
           \* .sort((a, b) => a.path.localeCompare(b.path))
           list |-> SortBy(mapped.list,
                           [i \in DOMAIN mapped.list |-> mapped.list[i].path])]]

\* the callback of getServiceTP's outer map, for one tag: [thrown, doc, tp]
ControllerOf(group, doc, cfg) ==
  Controller(replaceDot(group.tag), GenParams(group.list, <<>>, doc, cfg))

\* the controllers mapped so far and those of the tags after them
ControllersJoined(one, rest) ==
  [thrown |-> rest.thrown, doc |-> rest.doc, list |-> <<one.tp>> \o rest.list]

RECURSIVE Controllers(_, _, _)
\* Object.keys(this.apiData).map(...), over the groups left to map:
\* [thrown, doc, list]
Controllers(groups, doc, cfg) ==
  IF groups = <<>> THEN [thrown |-> FALSE, doc |-> doc, list |-> <<>>]
  ELSE Bind(ControllerOf(Head(groups), doc, cfg), LAMBDA one :
         IF one.thrown THEN [thrown |-> TRUE, doc |-> one.doc, list |-> <<>>]
         ELSE ControllersJoined(one, Controllers(Tail(groups), one.doc, cfg)))

\* .filter((ele) => !!ele?.list?.length), and what the map pushed on
\* this.classNameList for the controllers kept
ServiceTP(all, kept) ==
  [thrown |-> all.thrown,
   doc |-> all.doc,
   list |-> kept,
   classNames |-> [i \in DOMAIN kept |->
                     [fileName |-> kept[i].className,
                      controllerName |-> kept[i].className]]]

\* public getServiceTP(): [thrown, doc, list, classNames]; doc is the
\* Document as the call leaves it, classNames what it pushed on
\* this.classNameList
getServiceTP(groups, doc, cfg) ==
  Bind(Controllers(groups, doc, cfg), LAMBDA all :
    ServiceTP(all, SelectSeq(all.list, LAMBDA tp : tp.list # <<>>)))

-----------------------------------------------------------------------------
(* The ServiceGenerator *)

\* this.config.generateApis?.map(i => i.replace(this.pathReplaceReg, '__')) || []
NormalisedApis(cfg) ==
  IF "generateApis" \in DOMAIN cfg
    THEN [i \in DOMAIN cfg.generateApis |-> PathReplace(cfg.generateApis[i])]
    ELSE <<>>

\* operationObject['x-swagger-router-controller'], the field
\* routerController of the model, is a non-empty string
HasController(operationObject) ==
  "routerController" \in DOMAIN operationObject
    /\ operationObject.routerController # ""

\* the operation has no extension, no tags and no operationId: tags is
\* [undefined], [operationObject.operationId] being an array and so truthy
\* whatever it holds, and resolveTypeName(undefined, namespace) reads
\* typeName.replace of undefined
Untagged(operationObject) ==
  /\ ~HasController(operationObject)
  /\ "tags" \notin DOMAIN operationObject
  /\ "operationId" \notin DOMAIN operationObject

\* operationObject['x-swagger-router-controller']
\*   ? [operationObject['x-swagger-router-controller']]
\*   : operationObject.tags || [operationObject.operationId] || [...],
\* for an operation that is not Untagged
TagsOf(operationObject) ==
  IF HasController(operationObject) THEN <<operationObject.routerController>>
  ELSE IF "tags" \in DOMAIN operationObject THEN operationObject.tags
  ELSE <<operationObject.operationId>>

\* if (!this.apiData[tag]) this.apiData[tag] = []; this.apiData[tag].push(api)
PushApi(groups, tag, api) ==
  IF \E g \in DOMAIN groups : groups[g].tag = tag
    THEN [g \in DOMAIN groups |->
            IF groups[g].tag = tag
              THEN [groups[g] EXCEPT !.list = Append(@, api)]
              ELSE groups[g]]
    ELSE Append(groups, [tag |-> tag, list |-> <<api>>])

RECURSIVE PushApis(_, _, _, _)
\* tags.forEach((tagString) => { const tag = resolveTypeName(tagString,
\* namespace); ... }), for one operation
PushApis(groups, tags, api, namespace) ==
  IF tags = <<>> THEN groups
  ELSE PushApis(PushApi(groups, resolveTypeName(Head(tags), namespace), api),
                Tail(tags), api, namespace)

RECURSIVE GroupApis(_, _, _, _)
\* the loops of the constructor over the operations ops left to visit
GroupApis(groups, ops, doc, cfg) ==
  IF ops = <<>> THEN groups
  ELSE GroupApis(PushApis(groups, TagsOf(OpAt(doc, Head(ops).at)), Head(ops),
                          cfg.namespace),
                 Tail(ops), doc, cfg)

\* private checkPathInApis of genFile: what find() returns is truthy
checkPathInApis(apiPath, cfg) ==
  Bind(PathReplace(apiPath), LAMBDA regPath :
    \E i \in DOMAIN cfg.generateApis :
      /\ endsWith(regPath, cfg.generateApis[i])
      /\ \A j \in 1..(i - 1) : ~endsWith(regPath, cfg.generateApis[j])
      /\ cfg.generateApis[i] # "")

\* whether genFile keeps an entry: every entry without generateApis
Wanted(item, cfg) ==
  IF cfg.generateApis # <<>> THEN checkPathInApis(item.path, cfg) ELSE TRUE

\* one file per entry kept, in the directory of its controller
EntryFiles(className, items) ==
  [i \in DOMAIN items |->
     [dir |-> className,
      fileName |-> getFinalFileName(items[i].functionName \o ".ts"),
      list |-> <<items[i]>>]]

\* the controller files genFile writes for the controllers list, in order
ControllerFiles(list, cfg) ==
  Flatten([t \in DOMAIN list |->
             EntryFiles(list[t].className,
                        SelectSeq(list[t].list, LAMBDA item : Wanted(item, cfg)))])

\* new ServiceGenerator(config, openAPIData): this.config and this.apiData
\* as the constructor leaves them; apiData is the sequence of the groups
\* [tag, list] in the order their keys were added, and an api of a list
\* stands for { path, method, ...operationObject } by at, the place of the
\* operation object in the Document
ServiceGenerator(cfg, doc) ==
  Bind(With(cfg, "generateApis", NormalisedApis(cfg)), LAMBDA thisConfig :
    [config |-> thisConfig,
     apiData |-> GroupApis(<<>>, Operations(doc), doc, thisConfig)])

\* whether the constructor throws: the tags.forEach of some operation calls
\* resolveTypeName on undefined
ConstructorThrows(doc) ==
  \E i \in DOMAIN Operations(doc) : Untagged(OpAt(doc, Operations(doc)[i].at))

-----------------------------------------------------------------------------
(* Calls of the pure functions *)

NoCall == [fn |-> "none"]
Pending == [state |-> "pending"]

GenIdle ==
  /\ openAPIData = [paths |-> <<>>]
  /\ config = [namespace |-> ""]
  /\ apiData = <<>>
  /\ classNameList = <<>>
  /\ pc = "idle"
  /\ run = 0
  /\ typings = Pending
  /\ service = Pending
  /\ files = <<>>
  /\ first = Pending

RECURSIVE StringsOver(_, _)
\* the strings of length at most n over the characters cs
StringsOver(cs, n) ==
  IF n = 0 THEN {""}
  ELSE LET shorter == StringsOver(cs, n - 1)
       IN shorter \cup {c \o s : c \in cs, s \in {t \in shorter : Len(t) = n - 1}}

NameChars == {"a", "B", "_", "1"}

\* ASCII identifier-safe names: letters, digits, underscores, no leading digit
SafeNames ==
  {x \in StringsOver(NameChars, MaxNameLen) : x # "" /\ Head(x) \notin DigitSet}
    \cup {"class", "new", "in", "enum", "APIUser", "user_API_list"}

Namespaces == {"API", "a", ""}

InitName ==
  /\ GenIdle
  /\ arg \in {[fn |-> "resolveTypeName", x |-> x, ns |-> ns] :
                x \in SafeNames \cup ReservedWords, ns \in Namespaces}
  /\ out = Pending

\* name = resolveTypeName(x, ns)
CallResolveTypeName ==
  /\ arg.fn = "resolveTypeName"
  /\ out = Pending
  /\ out' = [r1 |-> resolveTypeName(arg.x, arg.ns)]
  /\ UNCHANGED <<genVars, arg>>

\* resolveTypeName(name, ns), on the name the first call returned
CallResolveTypeNameAgain ==
  /\ arg.fn = "resolveTypeName"
  /\ DOMAIN out = {"r1"}
  /\ out' = [r1 |-> out.r1, r2 |-> resolveTypeName(out.r1, arg.ns)]
  /\ UNCHANGED <<genVars, arg>>

NextName == CallResolveTypeName \/ CallResolveTypeNameAgain

SpecName == InitName /\ [][NextName]_vars

\* the schemas getType is called on, nested to depth d
Leaves ==
  {[type |-> "string"], [type |-> "integer", format |-> "int64"],
   [type |-> "boolean"], [ref |-> "#/components/schemas/X"]}

EnumSchema(vs) == [type |-> "string", enum |-> [list |-> vs]]

EnumLeaves ==
  {EnumSchema(<<Str("A"), Str("B"), Str("A")>>), EnumSchema(<<Str(" | ")>>),
   EnumSchema(<<Num(1), Num(2)>>)}

UnionTails == {[type |-> "string"], [ref |-> "#/components/schemas/Y"]}

RECURSIVE SchemasTo(_)
SchemasTo(d) ==
  IF d = 0 THEN Leaves \cup EnumLeaves
  ELSE LET inner == SchemasTo(d - 1)
       IN inner
          \cup {[type |-> "array", items |-> s] : s \in inner}
          \cup {[oneOf |-> [list |-> <<s, t>>]] : s \in inner, t \in UnionTails}
          \cup {[type |-> "object", properties |-> <<[key |-> "a", val |-> s]>>] :
                  s \in inner}

EnumValues == {Str("A"), Str("B"), Str("A(x)=1"), Str("b(y)=z"), Num(1)}

RECURSIVE SeqsUpTo(_, _)
\* the sequences over S of length 1..n
SeqsUpTo(S, n) ==
  IF n = 0 THEN {}
  ELSE LET shorter == SeqsUpTo(S, n - 1)
       IN {<<x>> : x \in S} \cup shorter
          \cup {Append(xs, x) : xs \in {ys \in shorter : Len(ys) = n - 1}, x \in S}

InitType ==
  /\ GenIdle
  /\ arg \in {[fn |-> "getType", schema |-> s, ns |-> ns] :
                s \in SchemasTo(MaxSchemaDepth), ns \in {"", "API"}}
           \cup {[fn |-> "resolveEnumObject", schema |-> EnumSchema(vs),
                  cfg |-> [namespace |-> "API", enumStyle |-> style]] :
                   vs \in SeqsUpTo(EnumValues, MaxEnumLen),
                   style \in {"enum", "string-literal", "none"}}
  /\ out = Pending

\* getType(schema, ns)
CallGetType ==
  /\ arg.fn = "getType"
  /\ out = Pending
  /\ out' = getType(arg.schema, arg.ns)
  /\ UNCHANGED <<genVars, arg>>

\* this.resolveEnumObject(schema), under a configuration's enumStyle
CallResolveEnumObject ==
  /\ arg.fn = "resolveEnumObject"
  /\ out = Pending
  /\ out' = resolveEnumObject(arg.schema, arg.cfg)
  /\ UNCHANGED <<genVars, arg>>

NextType == CallGetType \/ CallResolveEnumObject

SpecType == InitType /\ [][NextType]_vars

\* values that are no well-formed schema: undefined, null, primitives,
\* arrays without items or with items that are no schema, an enum that is
\* no list, objects of no recognised shape, a property that is no object
Malformed ==
  {Undefined, Null, Num(5), Str("x"), [bool |-> TRUE],
   [type |-> "array"],
   [type |-> "array", items |-> Num(5)],
   [type |-> "array", items |-> [list |-> <<Null>>]],
   [type |-> "array", items |-> [list |-> <<Num(5), [type |-> "string"]>>]],
   [type |-> "string", enum |-> Str("A")],
   [type |-> "weird"],
   [title |-> "t"],
   [type |-> "object"],
   [type |-> "object", properties |-> <<[key |-> "a", val |-> Str("x")]>>],
   [type |-> "object", properties |-> <<[key |-> "a", val |-> Null]>>]}

RECURSIVE ShapesTo(_)
\* the malformed values and the schemas that hold one, nested to depth d
ShapesTo(d) ==
  IF d = 0 THEN Malformed
  ELSE LET inner == ShapesTo(d - 1)
       IN inner
          \cup {[type |-> "array", items |-> s] : s \in inner}
          \cup {[type |-> "array", items |-> [list |-> <<s>>]] : s \in inner}
          \cup {[oneOf |-> [list |-> <<s, [type |-> "string"]>>]] : s \in inner}
          \cup {[type |-> "object", properties |-> <<[key |-> "a", val |-> s]>>] :
                  s \in inner}

InitShapes ==
  /\ GenIdle
  /\ arg \in {[fn |-> "getType", schema |-> s, ns |-> ns] :
                s \in ShapesTo(MaxSchemaDepth), ns \in {"", "API"}}
  /\ out = Pending

SpecShapes == InitShapes /\ [][CallGetType]_vars

-----------------------------------------------------------------------------
(* Generation runs *)

Returned(fields) == [state |-> "returned"] @@ fields

\* a caller holds a Document and a configuration and has made the first
\* ServiceGenerator from them
InitOf(inputs) ==
  /\ arg \in {[fn |-> "ServiceGenerator", config |-> i.config,
               openAPIData |-> i.openAPIData] : i \in inputs}
  /\ openAPIData = arg.openAPIData
  /\ config = ServiceGenerator(arg.config, arg.openAPIData).config
  /\ apiData = ServiceGenerator(arg.config, arg.openAPIData).apiData
  /\ classNameList = <<>>
  /\ pc = "constructed"
  /\ run = 1
  /\ typings = Pending
  /\ service = Pending
  /\ files = <<>>
  /\ first = Pending
  /\ out = Pending

\* the typings file genFile writes from the list of getInterfaceTP()
TypingsFile(list) == [dir |-> "", fileName |-> "typings.d.ts", list |-> list]

\* what genFile does with t, what getInterfaceTP() returned or threw, and s,
\* what getServiceTP() returned or threw
Generated(t, s) ==
  IF t.thrown
    THEN /\ pc' = "failed"
         /\ UNCHANGED <<openAPIData, classNameList, typings, service,
                        files, first>>
    ELSE /\ typings' = Returned([defined |-> t.defined, list |-> t.list])
         /\ openAPIData' = s.doc
         /\ classNameList' = classNameList \o s.classNames
         /\ IF s.thrown
              THEN /\ pc' = "failed"
                   /\ files' = <<TypingsFile(t.list)>>
                   /\ UNCHANGED <<service, first>>
              ELSE /\ pc' = "done"
                   /\ service' = Returned([list |-> s.list])
                   /\ files' = <<TypingsFile(t.list)>>
                                 \o ControllerFiles(s.list, config)
                   /\ first' = IF run = 1
                                 THEN Returned([typings |-> t.list,
                                                service |-> s.list])
                                 ELSE first

\* public async genFile(): the typings file from getInterfaceTP(), then a
\* file for every operation of getServiceTP() that passes the generateApis
\* filter.  files lists what this generator wrote; the index files, made
\* from the listing of the directories, are left out
GenFile ==
  /\ arg.fn = "ServiceGenerator"
  /\ pc = "constructed"
  /\ Generated(getInterfaceTP(openAPIData, config),
               getServiceTP(apiData, openAPIData, config))
  /\ UNCHANGED <<config, apiData, run, arg, out>>

\* the caller makes a second ServiceGenerator from the same configuration
\* and the same Document object
Construct ==
  /\ arg.fn = "ServiceGenerator"
  /\ pc \in {"done", "failed"}
  /\ run = 1
  /\ config' = ServiceGenerator(arg.config, openAPIData).config
  /\ apiData' = ServiceGenerator(arg.config, openAPIData).apiData
  /\ classNameList' = <<>>
  /\ pc' = "constructed"
  /\ run' = run + 1
  /\ typings' = Pending
  /\ service' = Pending
  /\ files' = <<>>
  /\ UNCHANGED <<openAPIData, first, arg, out>>

NextRun == GenFile \/ Construct

-----------------------------------------------------------------------------
(* The Documents and configurations of the runs *)

BaseConfig ==
  [namespace |-> "API", enumStyle |-> "string-literal", apiPrefix |-> "",
   customFunctionName |-> "none"]

Document(paths, schemas) ==
  [paths |-> paths, components |-> [schemas |-> schemas]]

\* the most path items of a Document of the naming runs
MaxPaths == 2

\* the paths of the naming runs, in the order of the Document's keys: not
\* the order the sort by path leaves them in
NamePaths == <<"/u/b", "/u/a", "/u/c">>
NameMethods == {"get", "post"}

\* operations of the tag user: with an operationId, or with none
NameOps ==
  {[tags |-> <<"user">>, operationId |-> id] : id \in {"getUser", "getUser_2", "_"}}
    \cup {[tags |-> <<"user">>]}

\* the operations of a path item with one or two methods, keys in any order
KeyedOps ==
  {<<[method |-> m, op |-> o]>> : m \in NameMethods, o \in NameOps}
    \cup {<<[method |-> ms[1], op |-> o1], [method |-> ms[2], op |-> o2]>> :
            ms \in {p \in NameMethods \X NameMethods : p[1] # p[2]},
            o1 \in NameOps, o2 \in NameOps}

RECURSIVE NameItems(_)
\* the lists of n path items: the first with one or two operations, the
\* others with a get
NameItems(n) ==
  IF n = 1 THEN {<<[path |-> NamePaths[1], ops |-> ops]>> : ops \in KeyedOps}
  ELSE {Append(items, [path |-> NamePaths[n],
                       ops |-> <<[method |-> "get", op |-> o]>>]) :
          items \in NameItems(n - 1), o \in NameOps}

NameDocs ==
  {Document(items, <<>>) :
     items \in UNION {NameItems(n) :
                        n \in 1..(IF MaxPaths < Len(NamePaths) THEN MaxPaths
                                  ELSE Len(NamePaths))}}

NameInputs ==
  {[config |-> With(BaseConfig, "customFunctionName", hook), openAPIData |-> d] :
     hook \in {"none", "operationId"}, d \in NameDocs}

InitNames == InitOf(NameInputs)

SpecNames == InitNames /\ [][NextRun]_vars

\* the paths of the filter runs, in the order of the Document's keys
FilterPaths ==
  <<"/api/v2/users/{id}", "/api/v2/users/{id}/orders", "/a/{id}/b/{name}",
    "/a/{x}/b/{param0}", "/k/{id}/{id}">>

RECURSIVE Picks(_, _)
\* the lists of at most n members of list, in the order of list
Picks(list, n) ==
  IF list = <<>> \/ n = 0 THEN {<<>>}
  ELSE Picks(Tail(list), n)
         \cup {<<Head(list)>> \o rest : rest \in Picks(Tail(list), n - 1)}

Parameter(name, in, required, type) ==
  [name |-> name, in |-> in, required |-> [bool |-> required],
   schema |-> [type |-> type]]

\* the parameters an operation of the filter runs declares
DeclaredParameters ==
  {<<>>, <<Parameter("id", "path", TRUE, "integer")>>,
   <<Parameter("name", "path", TRUE, "string")>>,
   <<Parameter("q", "query", FALSE, "string")>>}

\* a get of the tag t
GetOp(parameters) ==
  IF parameters = <<>> THEN [tags |-> <<"t">>]
  ELSE [tags |-> <<"t">>, parameters |-> parameters]

\* a Document with a get on each path, the first declaring parameters
FilterDocument(paths, parameters) ==
  Document([i \in DOMAIN paths |->
              [path |-> paths[i],
               ops |-> <<[method |-> "get",
                          op |-> GetOp(IF i = 1 THEN parameters ELSE <<>>)]>>]],
           <<>>)

FilterDocs ==
  {FilterDocument(paths, parameters) :
     paths \in Picks(FilterPaths, MaxPaths) \ {<<>>},
     parameters \in DeclaredParameters}

FilterConfigs ==
  {BaseConfig}
    \cup {With(BaseConfig, "generateApis", apis) :
            apis \in {<<>>, <<"users/{id}">>, <<"b/{name}">>, <<"orders">>}}

FilterInputs ==
  {[config |-> c, openAPIData |-> d] : c \in FilterConfigs, d \in FilterDocs}

InitPaths == InitOf(FilterInputs)

SpecPaths == InitPaths /\ [][NextRun]_vars

Property(key, val) == [key |-> key, val |-> val]

ObjectSchema(properties) == [type |-> "object", properties |-> properties]

BaseSchema == ObjectSchema(<<Property("id", [type |-> "string"])>>)

\* allOf: [{ $ref: '#/components/schemas/Base' }, { type: 'object',
\*          properties: { extra: { type: 'string' } } }]
DerivedSchema ==
  [allOf |-> [list |-> <<[ref |-> "#/components/schemas/Base"],
                         ObjectSchema(<<Property("extra", [type |-> "string"])>>)>>]]

\* an object whose property p is an object that requires its property q
WrappedSchema ==
  ObjectSchema(<<Property("p",
    [type |-> "object",
     properties |-> <<Property("q", [type |-> "string"])>>,
     required |-> [names |-> <<"q">>]])>>)

StatusSchema == EnumSchema(<<Str("A"), Str("B")>>)

ComponentList ==
  <<Property("Derived", DerivedSchema), Property("Base", BaseSchema),
    Property("Wrapped", WrappedSchema), Property("Status", StatusSchema)>>

\* the schema of the response of the operation of the schema runs
ResponseSchemas ==
  {[ref |-> "#/components/schemas/Wrapped"],
   [ref |-> "#/components/schemas/Derived"],
   [type |-> "object",
    properties |-> <<Property("a", [type |-> "string"]),
                     Property("b", [type |-> "integer"])>>,
    required |-> [names |-> <<"a">>]]}

SchemaOps ==
  {[tags |-> <<"t">>]}
    \cup {[tags |-> <<"t">>, responses |-> r] : r \in ResponseSchemas}

SchemaDocs ==
  {Document(<<[path |-> "/r", ops |-> <<[method |-> "get", op |-> o]>>]>>, schemas) :
     o \in SchemaOps, schemas \in Picks(ComponentList, MaxSchemas)}

SchemaConfigs ==
  LET plain == {[BaseConfig EXCEPT !.namespace = ns, !.enumStyle = style] :
                  ns \in {"API", ""}, style \in {"string-literal", "enum"}}
  IN plain \cup {With(c, "dataFields", <<"p">>) : c \in plain}

SchemaInputs ==
  {[config |-> c, openAPIData |-> d] : c \in SchemaConfigs, d \in SchemaDocs}

InitSchemas == InitOf(SchemaInputs)

SpecSchemas == InitSchemas /\ [][NextRun]_vars

\* the component schemas of the reference calls: an object, a reference to
\* it, a reference to that reference, a reference to itself, two references
\* to each other, and schemas that hold a reference to themselves in a
\* property or in the items of an array
RefComponents ==
  <<[key |-> "Base",
     val |-> [type |-> "object",
              properties |-> <<[key |-> "id", val |-> [type |-> "string"]]>>]],
    [key |-> "Alias", val |-> [ref |-> "#/components/schemas/Base"]],
    [key |-> "Alias2", val |-> [ref |-> "#/components/schemas/Alias"]],
    [key |-> "Loop", val |-> [ref |-> "#/components/schemas/Loop"]],
    [key |-> "Ping", val |-> [ref |-> "#/components/schemas/Pong"]],
    [key |-> "Pong", val |-> [ref |-> "#/components/schemas/Ping"]],
    [key |-> "Node",
     val |-> [type |-> "object",
              properties |->
                <<[key |-> "next", val |-> [ref |-> "#/components/schemas/Node"]]>>]],
    [key |-> "List",
     val |-> [type |-> "array", items |-> [ref |-> "#/components/schemas/List"]]]>>

RECURSIVE SubLists(_, _)
\* the lists of at most n members of list, in the order of list
SubLists(list, n) ==
  IF list = <<>> \/ n = 0 THEN {<<>>}
  ELSE SubLists(Tail(list), n)
         \cup {<<Head(list)>> \o rest : rest \in SubLists(Tail(list), n - 1)}

\* Documents with components.schemas, one with components and no schemas,
\* one without components
RefDocs ==
  {[paths |-> <<>>, components |-> [schemas |-> schemas]] :
     schemas \in SubLists(RefComponents, MaxSchemas)}
    \cup {[paths |-> <<>>, components |-> [parameters |-> <<>>]], [paths |-> <<>>]}

\* what resolveRefObject is called on: local references that reach a
\* schema, or miss their last, an intermediate or their first segment; a
\* reference into another file; nodes without $ref
RefObjects ==
  {[ref |-> "#/components/schemas/" \o n] :
     n \in {"Base", "Alias", "Alias2", "Loop", "Ping", "Node", "List", "Missing"}}
    \cup {[ref |-> "#/components/missing/Base"], [ref |-> "#/nothing/schemas/Base"],
          [ref |-> "#/missing"], [ref |-> "other.json#/components/schemas/Base"],
          [type |-> "string"], [type |-> "object", title |-> "t"], Undefined, Null}

\* { type: 'object', properties: { file: { type: 'string', format: 'binary' },
\*   note: { type: 'string' } } }
UploadSchema ==
  ObjectSchema(<<Property("file", [type |-> "string", format |-> "binary"]),
                 Property("note", [type |-> "string"])>>)

\* the schemas resolveObject and resolveFileTP are called on: the
\* references above and schemas given in place
RefSchemas ==
  {r \in RefObjects : IsObject(r)}
    \cup {UploadSchema, StatusSchema,
          [type |-> "array", items |-> [ref |-> "#/components/schemas/List"]]}

InitRefs ==
  /\ openAPIData \in RefDocs
  /\ arg \in {[fn |-> "resolveRefObject", refObject |-> r] : r \in RefObjects}
           \cup {[fn |-> fn, refObject |-> r] :
                   fn \in {"resolveObject", "resolveFileTP"}, r \in RefSchemas}
  /\ config \in {BaseConfig, [BaseConfig EXCEPT !.enumStyle = "enum"]}
  /\ apiData = <<>>
  /\ classNameList = <<>>
  /\ pc = "idle"
  /\ run = 0
  /\ typings = Pending
  /\ service = Pending
  /\ files = <<>>
  /\ first = Pending
  /\ out = Pending

\* this.resolveRefObject(refObject) on a generator of the Document
CallResolveRefObject ==
  /\ arg.fn = "resolveRefObject"
  /\ out = Pending
  /\ out' = resolveRefObject(arg.refObject, openAPIData, RefNodes(openAPIData))
  /\ UNCHANGED <<genVars, arg>>

\* this.resolveObject(schema), as getInterfaceTP calls it for a component
CallResolveObject ==
  /\ arg.fn = "resolveObject"
  /\ out = Pending
  /\ out' = resolveObject(arg.refObject, openAPIData, config)
  /\ UNCHANGED <<genVars, arg>>

\* this.resolveFileTP(schema), as getFileTP calls it for the schema of a
\* multipart/form-data request body; after the references of the schema
\* the recursion goes from an object to its type and from there to nothing
CallResolveFileTP ==
  /\ arg.fn = "resolveFileTP"
  /\ out = Pending
  /\ out' = resolveFileTP(arg.refObject, openAPIData, config,
                          RefNodes(openAPIData) + 3)
  /\ UNCHANGED <<genVars, arg>>

NextRefs == CallResolveRefObject \/ CallResolveObject \/ CallResolveFileTP

SpecRefs == InitRefs /\ [][NextRefs]_vars

\* the component schemas of the declaration runs: two names the sanitizer
\* maps to one identifier, and a name spelled like the parameter type of an
\* operation
DeclComponents ==
  <<Property("a_b", BaseSchema), Property("aB", BaseSchema),
    Property("getUserParams", BaseSchema), Property("Base", BaseSchema)>>

QueryParameter == Parameter("q", "query", FALSE, "string")

\* the operation of the first path: of the tag t, with or without an
\* operationId, with or without a parameter
FirstOps ==
  {[tags |-> <<"t">>], [tags |-> <<"t">>, operationId |-> "getUser"],
   [tags |-> <<"t">>, parameters |-> <<QueryParameter>>],
   [tags |-> <<"t">>, operationId |-> "getUser", parameters |-> <<QueryParameter>>]}

\* the operation of the second path: of the same tag or of another, with a
\* parameter
SecondOps ==
  {[tags |-> <<tag>>, parameters |-> <<QueryParameter>>] : tag \in {"t", "u"}}
    \cup {[tags |-> <<tag>>, operationId |-> "getUser",
           parameters |-> <<QueryParameter>>] : tag \in {"t", "u"}}

DeclPaths ==
  {<<[path |-> "/r", ops |-> <<[method |-> "get", op |-> o]>>]>> : o \in FirstOps}
    \cup {<<[path |-> "/r", ops |-> <<[method |-> "get", op |-> o1]>>],
            [path |-> "/s", ops |-> <<[method |-> "get", op |-> o2]>>]>> :
            o1 \in FirstOps, o2 \in SecondOps}

DeclDocs ==
  {Document(paths, schemas) :
     paths \in DeclPaths, schemas \in Picks(DeclComponents, MaxSchemas)}

DeclInputs ==
  {[config |-> [BaseConfig EXCEPT !.namespace = ns], openAPIData |-> d] :
     ns \in {"API", ""}, d \in DeclDocs}

InitDecls == InitOf(DeclInputs)

SpecDecls == InitDecls /\ [][NextRun]_vars

\* the parameter the reference '#/components/parameters/Id' leads to
IdParameter == Parameter("id", "query", TRUE, "integer")

\* the components of the failure runs: schemas and parameters, schemas
\* alone, or no components at all
FailComponents ==
  {[schemas |-> <<Property("Base", BaseSchema)>>,
    parameters |-> <<Property("Id", IdParameter)>>],
   [schemas |-> <<Property("Base", BaseSchema)>>]}

\* the parameters of the operation of the failure runs: none, one declared
\* in place, one given as a reference that resolves with the first
\* components, one given as a reference that leads nowhere
FailParameters ==
  {<<>>, <<QueryParameter>>, <<[ref |-> "#/components/parameters/Id"]>>,
   <<[ref |-> "#/components/parameters/Missing"]>>}

FailOps ==
  {GetOp(parameters) : parameters \in FailParameters}
    \cup {With(GetOp(parameters), "responses", [ref |-> "#/components/schemas/Base"]) :
            parameters \in FailParameters}

FailPaths ==
  {<<[path |-> "/r", ops |-> <<[method |-> "get", op |-> o]>>]>> : o \in FailOps}
    \cup {<<[path |-> "/r", ops |-> <<[method |-> "get", op |-> o]>>],
            [path |-> "/s", ops |-> <<[method |-> m, op |-> GetOp(<<>>)]>>]>> :
            o \in FailOps, m \in {"get", "post"}}

FailDocs ==
  {[paths |-> paths, components |-> c] : paths \in FailPaths, c \in FailComponents}
    \cup {[paths |-> paths] : paths \in FailPaths}

FailInputs ==
  {[config |-> [BaseConfig EXCEPT !.namespace = ns], openAPIData |-> d] :
     ns \in {"API", ""}, d \in FailDocs}

InitFailures == InitOf(FailInputs)

SpecFailures == InitFailures /\ [][NextRun]_vars

\* the components of the interface runs: none, parameters without schemas,
\* no schema, one schema, and schemas whose keys are not in order
IfaceComponents ==
  {[parameters |-> <<Property("Id", IdParameter)>>],
   [schemas |-> <<>>],
   [schemas |-> <<Property("Base", BaseSchema)>>],
   [schemas |-> <<Property("Zed", BaseSchema), Property("Base", BaseSchema)>>,
    parameters |-> <<Property("Id", IdParameter)>>]}

\* the parameters of the first operation: none, a query parameter, a path
\* parameter declared in place, a parameter given as a reference
IfaceParameters ==
  {<<>>, <<QueryParameter>>, <<Parameter("id", "path", TRUE, "integer")>>,
   <<[ref |-> "#/components/parameters/Id"]>>}

\* a first path with or without a placeholder, and with or without a second
\* path whose operation has a query parameter or none
IfacePaths ==
  {<<[path |-> p, ops |-> <<[method |-> "get", op |-> GetOp(ps)]>>]>> :
     p \in {"/r", "/r/{id}"}, ps \in IfaceParameters}
    \cup {<<[path |-> p, ops |-> <<[method |-> "get", op |-> GetOp(ps)]>>],
            [path |-> "/a", ops |-> <<[method |-> "post", op |-> GetOp(qs)]>>]>> :
            p \in {"/r", "/r/{id}"}, ps \in IfaceParameters,
            qs \in {<<>>, <<QueryParameter>>}}

IfaceDocs ==
  {[paths |-> paths, components |-> c] :
     paths \in IfacePaths, c \in IfaceComponents}
    \cup {[paths |-> paths] : paths \in IfacePaths}

IfaceInputs ==
  {[config |-> [BaseConfig EXCEPT !.namespace = ns], openAPIData |-> d] :
     ns \in {"API", ""}, d \in IfaceDocs}

InitInterfaces == InitOf(IfaceInputs)

SpecInterfaces == InitInterfaces /\ [][NextRun]_vars

\* the operations of the tagging runs: with the extension, with and without
\* tags and operationId, with tags that the sanitizer rewrites, with an empty
\* list of tags, and with none of the three
TagOps ==
  {[routerController |-> "ctrl", tags |-> <<"a">>, operationId |-> "getX"],
   [routerController |-> "ctrl"],
   [routerController |-> "", tags |-> <<"a">>],
   [tags |-> <<"a">>, operationId |-> "getX"],
   [tags |-> <<"a", "b">>],
   [tags |-> <<"user-info">>],
   [tags |-> <<>>, operationId |-> "getX"],
   [operationId |-> "getX"],
   [operationId |-> "get_x"],
   [summary |-> "s"]}

TagPaths == <<"/pets/list", "/users">>

\* Documents of one or two paths with one operation each
TagDocs ==
  {Document(<<[path |-> TagPaths[1], ops |-> <<[method |-> "get", op |-> a]>>]>>,
            <<>>) : a \in TagOps}
    \cup {Document(<<[path |-> TagPaths[1], ops |-> <<[method |-> "get", op |-> a]>>],
                     [path |-> TagPaths[2], ops |-> <<[method |-> "post", op |-> b]>>]>>,
                   <<>>) : a \in TagOps, b \in TagOps}

\* a caller holds a Document and a configuration and has made no
\* ServiceGenerator yet
InitTags ==
  /\ arg \in {[fn |-> "constructor", config |-> [BaseConfig EXCEPT !.namespace = ns],
               openAPIData |-> d] : ns \in {"API", ""}, d \in TagDocs}
  /\ openAPIData = arg.openAPIData
  /\ config = arg.config
  /\ apiData = <<>>
  /\ classNameList = <<>>
  /\ pc = "idle"
  /\ run = 0
  /\ typings = Pending
  /\ service = Pending
  /\ files = <<>>
  /\ first = Pending
  /\ out = Pending

\* new ServiceGenerator(config, openAPIData): the constructor fills
\* this.apiData, or throws and leaves no generator
New ==
  /\ arg.fn = "constructor"
  /\ pc = "idle"
  /\ IF ConstructorThrows(openAPIData)
       THEN /\ pc' = "failed"
            /\ UNCHANGED <<config, apiData, run>>
       ELSE /\ pc' = "constructed"
            /\ config' = ServiceGenerator(arg.config, openAPIData).config
            /\ apiData' = ServiceGenerator(arg.config, openAPIData).apiData
            /\ run' = 1
  /\ UNCHANGED <<openAPIData, classNameList, typings, service, files, first,
                 arg, out>>

SpecTags == InitTags /\ [][New]_vars

\* a property of the object schemas: its schema with or without a required
\* flag of its own, as getResponseTP writes one
FlaggedLeaves ==
  {[type |-> "string"], [type |-> "integer"]}
    \cup {[type |-> t, required |-> [bool |-> b]] :
            t \in {"string", "integer"}, b \in BOOLEAN}

\* the lists of property names a schema gives as required
RequiredLists == {<<>>, <<"a">>, <<"b">>, <<"a", "b">>}

\* object schemas of no, one and two properties, with and without a list of
\* required property names
ObjectSchemas ==
  {[type |-> "object"], [type |-> "object", properties |-> <<>>],
   [properties |-> <<>>, required |-> [names |-> <<"a">>]]}
    \cup {ObjectSchema(<<Property("a", x)>>) : x \in FlaggedLeaves}
    \cup {ObjectSchema(<<Property("a", x), Property("b", y)>>) :
            x \in FlaggedLeaves, y \in FlaggedLeaves}
    \cup {With(ObjectSchema(<<Property("a", x)>>), "required", [names |-> r]) :
            x \in FlaggedLeaves, r \in RequiredLists}
    \cup {With(ObjectSchema(<<Property("a", x), Property("b", y)>>), "required",
               [names |-> r]) :
            x \in FlaggedLeaves, y \in FlaggedLeaves, r \in RequiredLists}

InitObjects ==
  /\ GenIdle
  /\ arg \in {[fn |-> "getType", schema |-> sch, ns |-> ns] :
                sch \in ObjectSchemas, ns \in {"", "API"}}
  /\ out = Pending

SpecObjects == InitObjects /\ [][CallGetType]_vars

\* the formats the specification names, and one it does not
Formats ==
  {"int32", "int64", "float", "double", "date", "date-time", "email",
   "password", "url", "byte", "binary", "uuid"}

DeclaredTypes == {"string", "integer", "number", "boolean", "object", "date"}

\* the schemas with and without a declared type, a format and an enum
FormatSchemas ==
  {[type |-> t] : t \in DeclaredTypes}
    \cup {[format |-> f] : f \in Formats}
    \cup {[type |-> t, format |-> f] : t \in DeclaredTypes, f \in Formats}
    \cup {[type |-> t, enum |-> [list |-> <<Str("A"), Str("B")>>]] :
            t \in DeclaredTypes}
    \cup {[type |-> t, format |-> f, enum |-> [list |-> <<Str("A"), Str("B")>>]] :
            t \in DeclaredTypes, f \in Formats}

InitFormats ==
  /\ GenIdle
  /\ arg \in {[fn |-> "getType", schema |-> sch, ns |-> ns] :
                sch \in FormatSchemas, ns \in {"", "API"}}
  /\ out = Pending

SpecFormats == InitFormats /\ [][CallGetType]_vars

-----------------------------------------------------------------------------
(* C5, C6: enums and arrays *)

AllStrings(vs) == \A i \in DOMAIN vs : "str" \in DOMAIN vs[i]

\* the union of the distinct literals of vs, each once, in first-seen order
LiteralUnion(vs) ==
  join(Dedup([i \in DOMAIN vs |-> "\"" \o vs[i].str \o "\""]), " | ")

\* C5: with enumStyle 'string-literal', resolving an enum schema whose values
\* are strings yields the union of its distinct values as literals, each
\* exactly once, in first-seen order, and nothing else: "A" | "B" for the
\* values A, B, A.
C5_EnumUnion ==
  (/\ arg.fn = "resolveEnumObject"
   /\ arg.cfg.enumStyle = "string-literal"
   /\ AllStrings(arg.schema.enum.list)
   /\ out # Pending)
    => /\ ~out.thrown
       /\ out.type.defined
       /\ out.type.text = LiteralUnion(arg.schema.enum.list)

RECURSIVE TopLevelBar(_, _, _, _)
\* whether text t has, from position i on, a " | " outside every bracket,
\* brace and string literal: the type is a union at its top level
TopLevelBar(t, i, depth, quoted) ==
  IF i > Len(t) THEN FALSE
  ELSE LET c == Ch(t, i)
       IN IF quoted THEN TopLevelBar(t, i + 1, depth, c # "\"")
          ELSE IF c = "\"" THEN TopLevelBar(t, i + 1, depth, TRUE)
          ELSE IF c \in {"(", "{", "[", "<"} THEN TopLevelBar(t, i + 1, depth + 1, FALSE)
          ELSE IF c \in {")", "}", "]", ">"} THEN TopLevelBar(t, i + 1, depth - 1, FALSE)
          ELSE IF depth = 0 /\ OccursAt(t, " | ", i) THEN TRUE
          ELSE TopLevelBar(t, i + 1, depth, FALSE)

IsUnionType(t) == TopLevelBar(t, 1, 0, FALSE)

\* a call of getType on an array schema with a single items schema, returned
ArrayCall ==
  /\ arg.fn = "getType"
  /\ out # Pending
  /\ ~out.thrown
  /\ "type" \in DOMAIN arg.schema
  /\ arg.schema.type = "array"
  /\ "items" \in DOMAIN arg.schema

ItemType == getType(arg.schema.items, arg.ns).text

\* C6 as amended: an array whose item type is a union "X | Y" resolves to
\* "(X | Y)[]", never "X | Y[]"; an item type whose text holds no " | "
\* gets the [] suffix without parentheses; an item type that is no union but
\* holds " | " inside (an inline object with a union-typed property, an
\* array of a union, a literal with " | " in it) is parenthesised as well.
C6_ArrayOfUnion ==
  ArrayCall =>
    /\ IsUnionType(ItemType) => out.text = "(" \o ItemType \o ")[]"
    /\ ~includes(ItemType, " | ") => out.text = ItemType \o "[]"
    /\ includes(ItemType, " | ") => out.text = "(" \o ItemType \o ")[]"

C6_Witness ==
  /\ ArrayCall
  /\ arg.ns = ""
  /\ arg.schema.items =
       [oneOf |-> [list |-> <<[ref |-> "#/components/schemas/X"],
                              [ref |-> "#/components/schemas/Y"]>>]]
  /\ out.text = "(X | Y)[]"

\* C6 as stated: a union item type is parenthesised, and an item type that
\* is not a union gets the [] suffix without parentheses.
C6_ParensOnlyForUnion ==
  ArrayCall =>
    /\ IsUnionType(ItemType) => out.text = "(" \o ItemType \o ")[]"
    /\ ~IsUnionType(ItemType) => out.text = ItemType \o "[]"

-----------------------------------------------------------------------------
(* C8, C9: the sanitizer *)

\* C8: resolveTypeName is idempotent on ASCII identifier-safe names: for
\* every namespace ns and every name x of letters, digits and underscores
\* (no leading digit), resolveTypeName(resolveTypeName(x, ns), ns) equals
\* resolveTypeName(x, ns), reserved words, consecutive underscores and names
\* containing ns included.
C8_Idempotent ==
  (arg.fn = "resolveTypeName" /\ "r2" \in DOMAIN out /\ arg.x \in SafeNames)
    => out.r2 = out.r1

\* C9: for every keyword k of the reserved set and every namespace ns,
\* resolveTypeName(k, ns) is not itself a reserved word.
C9_ReservedSafe ==
  (arg.fn = "resolveTypeName" /\ "r1" \in DOMAIN out /\ ReservedCheck(arg.x))
    => ~ReservedCheck(out.r1)

C9_Witness ==
  /\ arg.fn = "resolveTypeName"
  /\ arg.x = "class"
  /\ "r1" \in DOMAIN out
  /\ out.r1 = "__openAPI__class"


-----------------------------------------------------------------------------
(* C1, C2: function names *)

\* the controllers getServiceTP returned in this run
Groups == IF service.state = "returned" THEN service.list ELSE <<>>

\* the function name computed for the operation of an entry, before the
\* collisions of its tag group are resolved
ComputedName(e) ==
  getFinalFileName(
    getFunctionName(WithPath(OpAt(openAPIData, e.at), e.method,
                             openAPIData.paths[e.at[1]].path),
                    openAPIData, config))

\* operation a comes before operation b in the input document
DocumentBefore(a, b) ==
  a.at[1] < b.at[1] \/ (a.at[1] = b.at[1] /\ a.at[2] < b.at[2])

\* how many operations of the group, up to e in document order, compute the
\* name e computes
Repeat(list, e) ==
  Cardinality({i \in DOMAIN list :
                 /\ ComputedName(list[i]) = ComputedName(e)
                 /\ (list[i].at = e.at \/ DocumentBefore(list[i], e))})

\* C1: within one tag group, function-name collisions are resolved in
\* document discovery order, before the list is sorted by path: the first
\* operation of the input document whose computed name is N keeps N, and the
\* k-th operation (k >= 2) of the group with that computed name is named N_k.
C1_DocumentOrder ==
  \A t \in DOMAIN Groups :
    \A i \in DOMAIN Groups[t].list :
      LET e == Groups[t].list[i]
          k == Repeat(Groups[t].list, e)
      IN e.functionName =
           IF k = 1 THEN ComputedName(e)
           ELSE ComputedName(e) \o "_" \o NumText(k)

\* C2: in every tag group returned by getServiceTP, no two entries have the
\* same functionName, whatever the operations of the group and their
\* computed names are (from the operationId, from the customFunctionName
\* hook or synthesized from the path, empty names and names that look
\* suffixed included).
C2_UniqueNames ==
  \A t \in DOMAIN Groups :
    \A i, j \in DOMAIN Groups[t].list :
      i # j => Groups[t].list[i].functionName # Groups[t].list[j].functionName


-----------------------------------------------------------------------------
(* C3: the generateApis filter *)

RECURSIVE TokenCollapse(_)
\* s with every {param} or ${param} token replaced, one by one, by the
\* fixed placeholder, the text between two tokens kept
TokenCollapse(s) ==
  IF s = "" THEN ""
  ELSE IF Len(s) >= 2 /\ SubSeq(s, 1, 2) = "${" /\ includes(s, "}")
    THEN "__" \o TokenCollapse(SubSeq(s, indexOf(s, "}") + 1, Len(s)))
  ELSE IF Head(s) = "{" /\ includes(s, "}")
    THEN "__" \o TokenCollapse(SubSeq(s, indexOf(s, "}") + 1, Len(s)))
  ELSE Head(s) \o TokenCollapse(Tail(s))

\* the generateApis the caller configured
ConfiguredApis ==
  IF "generateApis" \in DOMAIN arg.config THEN arg.config.generateApis ELSE <<>>

\* genFile wrote a controller file for the operation at a place of the Document
Emitted(at) ==
  \E f \in DOMAIN files : files[f].dir # "" /\ files[f].list[1].at = at

\* C3: when generateApis is non-empty, genFile emits an operation if and
\* only if its path, every {param} or ${param} token collapsed one by one to
\* the fixed placeholder, ends with some generateApis entry normalised the
\* same way; when generateApis is empty or absent it emits every operation.
C3_FilterByTokens ==
  (arg.fn = "ServiceGenerator" /\ pc = "done") =>
    \A i \in DOMAIN Operations(openAPIData) :
      LET o == Operations(openAPIData)[i]
      IN Emitted(o.at) <=>
           \/ ConfiguredApis = <<>>
           \/ \E a \in DOMAIN ConfiguredApis :
                endsWith(TokenCollapse(o.path), TokenCollapse(ConfiguredApis[a]))

-----------------------------------------------------------------------------
(* C4: path parameters and their aliases *)

RECURSIVE BraceNames(_)
\* the texts between the braces of the placeholders of a path, in path order
BraceNames(path) ==
  LET i == indexOf(path, "{")
      rest == SubSeq(path, i + 1, Len(path))
      j == indexOf(rest, "}")
  IN IF i = 0 \/ j = 0 THEN <<>>
     ELSE <<SubSeq(rest, 1, j - 1)>> \o BraceNames(SubSeq(rest, j + 1, Len(rest)))

\* the path of the Document an entry was made from
OriginalPath(e) == openAPIData.paths[e.at[1]].path

\* the path parameters the operation of an entry declares
DeclaredPathParams(e) ==
  LET op == OpAt(openAPIData, e.at)
  IN IF "parameters" \in DOMAIN op
       THEN SelectSeq(op.parameters, LAMBDA prm : prm.in = "path")
       ELSE <<>>

PathParamsOf(e) == IF "path" \in DOMAIN e.params THEN e.params.path ELSE <<>>

NamesOf(params) == [i \in DOMAIN params |-> params[i].name]

Members(xs) == {xs[i] : i \in DOMAIN xs}

\* the placeholders of the entry's path are distinct words, and no
\* placeholder and no declared path parameter is spelled like an alias
PlainPlaceholders(e) ==
  LET names == BraceNames(OriginalPath(e))
      all == Members(names) \cup Members(NamesOf(DeclaredPathParams(e)))
  IN /\ names # <<>>
     /\ Cardinality(Members(names)) = Len(names)
     /\ \A n \in Members(names) :
          n # "" /\ \A c \in 1..Len(n) : IsWordCh(Ch(n, c))
     /\ \A n \in all : ~startsWith(n, "param")

RECURSIVE Substitute(_, _)
\* path with each placeholder {name} rewritten to ${alias}, the alias of the
\* path parameter of that name
Substitute(path, params) ==
  LET i == indexOf(path, "{")
      j == indexOf(path, "}")
      name == SubSeq(path, i + 1, j - 1)
      k == CHOOSE n \in DOMAIN params : params[n].name = name
  IN IF i = 0 \/ j < i THEN path
     ELSE SubSeq(path, 1, i - 1) \o "${" \o params[k].alias \o "}"
          \o Substitute(SubSeq(path, j + 1, Len(path)), params)

\* C4: for a path whose placeholders are distinct words, getParamsTP yields
\* the declared path parameters, kept as declared, followed by one path
\* parameter per placeholder that is not declared, in path order, each with
\* a string schema and required = true; getServiceTP gives the i-th path
\* parameter the alias param<i> (from 0) and rewrites each placeholder of
\* the formatted path to the alias of its parameter, so that
\* "/a/{id}/b/{name}" without declared path parameters becomes
\* "/a/${param0}/b/${param1}".
C4_PathParameters ==
  \A t \in DOMAIN Groups :
    \A x \in DOMAIN Groups[t].list :
      LET e == Groups[t].list[x]
          ps == PathParamsOf(e)
          declared == DeclaredPathParams(e)
          names == BraceNames(OriginalPath(e))
          undeclared ==
            SelectSeq(names, LAMBDA n : n \notin Members(NamesOf(declared)))
      IN PlainPlaceholders(e) =>
           /\ NamesOf(ps) = NamesOf(declared) \o undeclared
           /\ \A i \in DOMAIN ps : ps[i].alias = "param" \o NumText(i - 1)
           /\ \A i \in DOMAIN declared :
                /\ ps[i].schema = declared[i].schema
                /\ ps[i].required = declared[i].required
           /\ \A i \in DOMAIN ps :
                i > Len(declared) =>
                  /\ ps[i].in = "path"
                  /\ ps[i].schema = [type |-> "string"]
                  /\ ps[i].type = "string"
                  /\ ps[i].required = [bool |-> TRUE]
           /\ e.pathInComment = Substitute(OriginalPath(e), ps)

C4_Witness ==
  \E t \in DOMAIN Groups :
    \E x \in DOMAIN Groups[t].list :
      LET e == Groups[t].list[x]
      IN /\ OriginalPath(e) = "/a/{id}/b/{name}"
         /\ DeclaredPathParams(e) = <<>>
         /\ NamesOf(PathParamsOf(e)) = <<"id", "name">>
         /\ e.path = "/a/${param0}/b/${param1}"


-----------------------------------------------------------------------------
(* C7: allOf composition *)

\* the declarations getInterfaceTP returned in this run
Declarations == IF typings.state = "returned" THEN typings.list ELSE <<>>

\* the component schema a declaration was made from: the index of its key
ComponentOf(decl) ==
  LET schemas == ComponentSchemas(openAPIData)
  IN IF \E k \in DOMAIN schemas :
          resolveTypeName(schemas[k].key, config.namespace) = decl.typeName
       THEN CHOOSE k \in DOMAIN schemas :
              resolveTypeName(schemas[k].key, config.namespace) = decl.typeName
       ELSE 0

\* the declarations of the component schemas that are an allOf
AllOfDeclarations ==
  {i \in DOMAIN Declarations :
     /\ ComponentOf(Declarations[i]) # 0
     /\ "allOf" \in DOMAIN ComponentSchemas(openAPIData)[ComponentOf(Declarations[i])].val}

AllOfOf(decl) ==
  ComponentSchemas(openAPIData)[ComponentOf(decl)].val.allOf.list

\* the type name of a reference, qualified by the namespace when there is one
Qualified(ref) ==
  LET name == Last(split(ref, "/"))
  IN IF config.namespace = "" THEN name ELSE config.namespace \o "." \o name

OwnNames(decl) ==
  Flatten([g \in DOMAIN decl.props |->
             [i \in DOMAIN decl.props[g] |->
                IF "name" \in DOMAIN decl.props[g][i]
                  THEN decl.props[g][i].name ELSE ""]])

-----------------------------------------------------------------------------
(* C10: two runs over one Document *)

\* C10: for a fixed Document and configuration, the second run of
\* getInterfaceTP and getServiceTP, reading the Document the first run read,
\* produces the NamedTypeDeclaration list and the ApiEntry lists the first
\* run produced.
C10_SameLists ==
  (run = 2 /\ pc = "done" /\ first.state = "returned") =>
    /\ typings.list = first.typings
    /\ service.list = first.service

-----------------------------------------------------------------------------
(* C11: getType on values that are no schema *)

\* C11: getType is total: for every schema value, undefined, null,
\* non-object values, arrays without items or with a list of items holding
\* null or non-object entries, enums that are no lists and objects of
\* unrecognised shape included, it returns a type string and does not throw.
C11_Total ==
  (arg.fn = "getType" /\ "thrown" \in DOMAIN out)
    => ~out.thrown /\ out.kind = "string"


-----------------------------------------------------------------------------
(* C12: references *)

\* the segments of the reference of this call, after '#'
CallSegments == Tail(split(arg.refObject.ref, "/"))

\* whether the Document has a value at the end of the segments segs
Reaches(segs) ==
  ~RefWalk(openAPIData, segs).thrown /\ Truthy(RefWalk(openAPIData, segs).obj)

\* the position of the first segment of segs the Document has no value for,
\* 0 when every segment leads to one
FirstMissing(segs) ==
  IF \A i \in 1..Len(segs) : Reaches(SubSeq(segs, 1, i)) THEN 0
  ELSE CHOOSE i \in 1..Len(segs) :
         ~Reaches(SubSeq(segs, 1, i)) /\ \A j \in 1..(i - 1) : Reaches(SubSeq(segs, 1, j))

IsLocalRef(refObject) ==
  HasText(refObject, "ref") /\ Head(split(refObject.ref, "/")) = "#"

\* C12: resolveRefObject on a local reference whose path has a missing
\* segment, at the first, an intermediate or the last position, fails with
\* the data error that carries the reference string; a node without $ref is
\* returned unchanged and a non-local reference is returned unresolved.
C12_MissingSegment ==
  (arg.fn = "resolveRefObject" /\ "thrown" \in DOMAIN out) =>
    /\ ~IsLocalRef(arg.refObject) => ~out.thrown /\ out.val = arg.refObject
    /\ (IsLocalRef(arg.refObject) /\ FirstMissing(CallSegments) # 0)
         => out.thrown /\ out.error = DataError(arg.refObject.ref)


-----------------------------------------------------------------------------
(* C13: the names of the declarations *)

\* the list getInterfaceTP returned in this run
DeclaredList ==
  IF typings.state = "returned" /\ typings.defined THEN typings.list ELSE <<>>

\* C13: the list returned by getInterfaceTP never holds two declarations
\* with the same typeName: not for component schemas whose names sanitize
\* to one identifier, not for operations whose function names coincide, not
\* for a component schema and the <functionName>Params type of an operation.
C13_UniqueTypeNames ==
  \A i, j \in DOMAIN DeclaredList :
    i # j => DeclaredList[i].typeName # DeclaredList[j].typeName


-----------------------------------------------------------------------------
(* C14: the Document as generation leaves it *)

\* C14: the input Document is read-only throughout generation: after any
\* sequence of calls of getInterfaceTP and getServiceTP (and so of
\* getParamsTP and getResponseTP), every node of the Document, its paths,
\* operations, component schemas and their properties, is as the caller
\* handed it in.
C14_ReadOnly ==
  arg.fn = "ServiceGenerator" => openAPIData = arg.openAPIData


-----------------------------------------------------------------------------
(* C17: termination of the resolution *)

\* the node a local reference names, Undefined where the Document has none
RefTarget(ref) ==
  IF RefWalk(openAPIData, Tail(split(ref, "/"))).thrown THEN Undefined
  ELSE RefWalk(openAPIData, Tail(split(ref, "/"))).obj

RECURSIVE ChainCycles(_, _)
\* whether the chain of references that starts at node comes back to a
\* reference of seen or to one it has passed itself
ChainCycles(node, seen) ==
  IF ~IsLocalRef(node) THEN FALSE
  ELSE IF node.ref \in seen THEN TRUE
  ELSE ChainCycles(RefTarget(node.ref), seen \cup {node.ref})

\* whether the call has ended in an exhausted stack
Exhausted ==
  "thrown" \in DOMAIN out /\ out.thrown
    /\ "error" \in DOMAIN out /\ out.error = StackError

\* C17: resolveRefObject, resolveObject and resolveFileTP return, or fail
\* with an error of their own, on every Document in which the chain of
\* references from the node they are given does not come back to itself,
\* a schema that refers to itself through a property or an array item
\* included; the recursion is without bound exactly when the chain of
\* references cycles, no cycle being detected.
C17_OnlyCyclesDiverge ==
  (arg.fn \in {"resolveRefObject", "resolveObject", "resolveFileTP"}
     /\ "thrown" \in DOMAIN out)
    => (Exhausted <=> ChainCycles(arg.refObject, {}))

\* a reference into a cycle of two components has exhausted the stack
C17_Witness ==
  /\ arg.fn = "resolveRefObject"
  /\ arg.refObject = [ref |-> "#/components/schemas/Ping"]
  /\ Exhausted
  /\ Len(ComponentSchemas(openAPIData)) > 1


-----------------------------------------------------------------------------
(* C15: resolution and emission *)

\* C15: in genFile every NamedTypeDeclaration and every ApiEntry is
\* resolved before anything is handed to emission: no file is written
\* before both getInterfaceTP and getServiceTP have returned, so that an
\* error raised in getServiceTP never comes after a file has been written.
C15_ResolvedBeforeEmission ==
  (arg.fn = "ServiceGenerator" /\ files # <<>>)
    => typings.state = "returned" /\ service.state = "returned"


-----------------------------------------------------------------------------
(* C16: the alias step *)

\* C16: after the alias step of getServiceTP every placeholder of the
\* formatted path has been rewritten to the alias of the path parameter of
\* that name, and none still carries an original parameter name; this for
\* every list of path parameters, one named like an alias (param0) and a
\* placeholder that occurs twice in the path included.
C16_AliasedPlaceholders ==
  \A t \in DOMAIN Groups :
    \A x \in DOMAIN Groups[t].list :
      Groups[t].list[x].pathInComment
        = Substitute(OriginalPath(Groups[t].list[x]),
                     PathParamsOf(Groups[t].list[x]))

-----------------------------------------------------------------------------
(* C18: tag groups *)

\* p.replace('/', '').split('/')[0]: the first segment of the path
FirstSegment(path) == split(path, "/")[2]

\* the tags of the order of preference: the extension, else the declared
\* tags, else the operationId, else the first path segment
PreferredTags(operationObject, path) ==
  IF HasController(operationObject) THEN <<operationObject.routerController>>
  ELSE IF "tags" \in DOMAIN operationObject THEN operationObject.tags
  ELSE IF "operationId" \in DOMAIN operationObject
    THEN <<operationObject.operationId>>
  ELSE <<FirstSegment(path)>>

\* the tags of this.apiData that hold the operation e
GroupsOf(e) ==
  {apiData[g].tag : g \in {h \in DOMAIN apiData :
                             \E x \in DOMAIN apiData[h].list : apiData[h].list[x] = e}}

\* C18: the constructor assigns every defined operation to the tag groups of
\* the order of preference, the extension, else the declared tags, else the
\* operationId, else the first path segment, each sanitized with
\* resolveTypeName; an operation with none of the first three is grouped
\* under its path segment, and every operation is in at least one group.
C18_TagPreference ==
  (arg.fn = "constructor" /\ pc # "idle")
    => /\ pc = "constructed"
       /\ \A i \in DOMAIN Operations(openAPIData) :
            LET e == Operations(openAPIData)[i]
                tags == PreferredTags(OpAt(openAPIData, e.at), e.path)
            IN /\ GroupsOf(e) # {}
               /\ GroupsOf(e) = {resolveTypeName(tags[t], config.namespace) :
                                   t \in DOMAIN tags}

-----------------------------------------------------------------------------
(* C19: the optional marker *)

\* the names of the schema's required set
RequiredNames(schemaObject) ==
  IF "required" \in DOMAIN schemaObject /\ "names" \in DOMAIN schemaObject.required
    THEN {schemaObject.required.names[i] : i \in DOMAIN schemaObject.required.names}
    ELSE {}

\* 'key': type;  with the marker ? for a property that is not required
Member(property, required, namespace) ==
  "'" \o property.key \o "'" \o (IF required THEN "" ELSE "?") \o ": "
    \o getType(property.val, namespace).text \o "; "

\* C19: getType of an object schema with at least one property returns an
\* inline object literal in which a property carries the optional marker ?
\* exactly when its name is not in the schema's required set; an object
\* schema with no declared property returns Record<string, any>.
C19_OptionalMarker ==
  (arg.fn = "getType" /\ arg.schema \in ObjectSchemas /\ out # Pending)
    => /\ ~out.thrown
       /\ out.text =
            IF "properties" \notin DOMAIN arg.schema
                 \/ arg.schema.properties = <<>>
              THEN "Record<string, any>"
              ELSE "{ " \o join([i \in DOMAIN arg.schema.properties |->
                                   Member(arg.schema.properties[i],
                                          arg.schema.properties[i].key
                                            \in RequiredNames(arg.schema),
                                          arg.ns)], "")
                        \o "}"


-----------------------------------------------------------------------------
(* C20: formats *)

NumericFormats == {"int32", "int64", "float", "double"}
DateFormats == {"date", "date-time"}
StringFormats == {"email", "password", "url", "byte", "binary"}

\* C20: getType coerces by format before it looks at the declared type: a
\* numeric format gives number whatever the declared type, a date format
\* gives Date, the formats email, password, url, byte and binary give
\* string; and an enum overrides the declared type.
C20_FormatCoercion ==
  (arg.fn = "getType" /\ arg.schema \in FormatSchemas /\ out # Pending)
    => /\ ~out.thrown
       /\ "enum" \in DOMAIN arg.schema => out.text = "\"A\" | \"B\""
       /\ ("enum" \notin DOMAIN arg.schema /\ "format" \in DOMAIN arg.schema)
            => /\ arg.schema.format \in NumericFormats => out.text = "number"
               /\ arg.schema.format \in DateFormats => out.text = "Date"
               /\ arg.schema.format \in StringFormats => out.text = "string"

-----------------------------------------------------------------------------
(* C21: the list of getInterfaceTP *)

\* the operations of the Document that declare parameters
WithParameters ==
  SelectSeq(Operations(openAPIData),
            LAMBDA o : ParametersOf(OpAt(openAPIData, o.at)) # <<>>)

\* the type names of one declaration per component schema and one per
\* operation that declares parameters
ExpectedNames ==
  [i \in DOMAIN ComponentSchemas(openAPIData) |->
     resolveTypeName(ComponentSchemas(openAPIData)[i].key, config.namespace)]
    \o [i \in DOMAIN WithParameters |->
          getTypeName(WithPath(OpAt(openAPIData, WithParameters[i].at),
                               WithParameters[i].method, WithParameters[i].path),
                      openAPIData, config)]

\* how often the name n occurs among names
NameCount(names, n) == Cardinality({i \in DOMAIN names : names[i] = n})

\* the type names of the list getInterfaceTP returned
ListedNames == [i \in DOMAIN typings.list |-> typings.list[i].typeName]

\* C21: for every Document getInterfaceTP returns a list sorted by typeName
\* that holds one declaration per component schema and one per operation
\* that has parameters; also for a Document without components or with
\* components that hold no schemas, where the list holds the declarations
\* of the operations alone and the call does not fail.
C21_SortedDeclarations ==
  (arg.fn = "ServiceGenerator" /\ pc \in {"done", "failed"})
    => /\ typings.state = "returned"
       /\ typings.defined
       /\ \A i, j \in DOMAIN typings.list :
            i < j => localeCompare(typings.list[i].typeName,
                                   typings.list[j].typeName) <= 0
       /\ Len(typings.list) = Len(ExpectedNames)
       /\ \A i \in DOMAIN ExpectedNames :
            NameCount(ListedNames, ExpectedNames[i])
              = NameCount(ExpectedNames, ExpectedNames[i])

-----------------------------------------------------------------------------
(* C22: the type names of the entries *)

\* the type names getInterfaceTP declared in this run
DeclaredNames ==
  IF typings.state = "returned" /\ typings.defined
    THEN {typings.list[i].typeName : i \in DOMAIN typings.list}
    ELSE {}

\* C22: every ApiEntry getServiceTP returns with hasParams = true has its
\* typeName declared in the list getInterfaceTP returns for the same
\* Document and configuration, an operation whose only parameters are the
\* placeholders of its path and one whose parameters are given as $ref
\* included.
C22_ParamsDeclared ==
  \A t \in DOMAIN Groups :
    \A x \in DOMAIN Groups[t].list :
      Groups[t].list[x].hasParams
        => Groups[t].list[x].typeName \in DeclaredNames


=============================================================================
